---- MODULE Spec2Model ----
(***************************************************************************)
(* Stravation: Strava -> Notion synchronisation (activities, routes),      *)
(* Notion plan -> Google Calendar push, desktop UI worker threads and      *)
(* start-up configuration, modelled as state machines.                     *)
(*                                                                         *)
(* Notion property names are written without accents ("Realisation" for   *)
(* "Réalisation", "Depart" for "Départ", ...).  A payload is modelled by   *)
(* the set of its property keys (plus the typed value of the              *)
(* de-duplication property); the other property values play no role.     *)
(***************************************************************************)
EXTENDS Integers, Sequences, FiniteSets, TLC

(***************************************************************************)
(* Bounds of the model                                                     *)
(***************************************************************************)
NumActs == 2
MaxClock == 1
MaxPages == 2

(***************************************************************************)
(* Program constants                                                       *)
(***************************************************************************)
DEFAULT_YEARS == 5
DETAIL_ATTEMPTS == 2

Activities == 1..NumActs
Absent == -1
NoMeta == -1
NoSince == -1
Sinces == {NoSince, 0}

VARIABLES
    cmd,                \* which part of the program this behaviour exercises
    \* ---- activity sync (features/strava_to_notion.py)
    clock,              \* wall clock (p.now()), in model time units
    stravaActs,         \* Strava: activity id -> start time, or Absent
    actSchema,          \* Notion activities DB: property name -> type
    actPages,           \* Notion activities DB: sequence of pages
    seenActs,           \* state.sqlite: seen_activities
    lastSyncEpoch,      \* state.sqlite: meta["last_sync_epoch"]
    actPc,              \* sync_strava_to_notion: "idle" | "loop"
    actArgs,            \* arguments and environment of the current run
    actList,            \* activities listed by _iter_strava_activities
    actIdx,             \* position of the for loop in actList
    created_or_updated, \* local counter of sync_strava_to_notion
    already,            \* local counter of sync_strava_to_notion
    actResult,          \* "none" | "returned" | "raised"
    actLast,            \* what the last loop iteration did
    actTouched,         \* the current/last run sent a Notion write
    actPrevOk,          \* arguments of the immediately preceding completed
                        \* non-forced run, while Strava and the cache are
                        \* what that run left
    actFollows,         \* the current/last run repeats actPrevOk
    \* ---- route sync (features/routes_to_notion.py, storage/db.py)
    stravaRoutes,       \* Strava: route id -> route, or NoRoute
    rtSchema,           \* Notion GPX DB: property name -> type
    rtPages,            \* Notion GPX DB: sequence of pages
    seenRoutes,         \* stravation.sqlite3: seen_routes
    rtWriteFailed,      \* history: the route whose write failed last, or 0
    rtSynced,           \* history: what each route was at its last
                        \* successful sync
    rtPc,               \* sync_strava_routes_to_notion: "idle" | "loop"
    rtForce,            \* argument force
    rtSeen,             \* local seen = get_seen_routes()
    rtList,             \* routes yielded by _iter_strava_routes
    rtIdx,              \* position of the for loop in rtList
    rtCreated,          \* local created_or_updated
    rtSkipped,          \* local skipped
    rtFailed,           \* history: upserts whose exception was caught
    rtResult,           \* "none" | "returned" | "raised"
    rtLast,             \* what the last loop iteration did
    \* ---- desktop UI (ui/mini_app.py)
    uiThreads,          \* worker threads started by App._run_bg
    uiStatus,           \* App.status_var
    uiBtnText,          \* text of btn_sync_act / btn_sync_gpx
    \* ---- plans -> Google Calendar (features/plan_to_calendar.py)
    planPages,          \* Notion planning DB: page ids in the window
    gcalEvents,         \* Google Calendar: sequence of events
    planPc,             \* push_plans_window: "idle" | "loop"
    planSessions,       \* sessions = fetch_plan_sessions(...)
    planIdx,            \* position of the for loop in sessions
    planCount,          \* local count
    planResult,         \* "none" | "returned" | "raised"
    planRuns,           \* number of push_plans_window runs ended so far
    \* ---- start-up (config.py, cli.py, module imports)
    bootEnv,            \* names of the environment variables that are set
    bootEntry,          \* "cli" | "ui"
    bootPc,             \* "import" | "ready" | "sync" | "failed" | "done"
    bootStep,           \* position in the import list / in the sync prologue
    bootCmd,            \* "none" | "activities" | "routes"
    bootRemote,         \* requests sent to Strava, Notion or Google
    bootCacheWrites,    \* writes to the local SQLite caches
    \* ---- _trimp_bannister
    trimpIn,            \* the arguments of the call
    trimpOut,           \* [kind, tenths]: "pending" | "none" | "value" | "raise"
    \* ---- cli plan-to-gcal (week plan towards the "Sport" calendar)
    wkSportCal,         \* the account lists a calendar named SPORT_CALENDAR_NAME
    wkEvents,           \* ids of the events of that calendar
    wkPc,               \* "idle" | "show" | "push"
    wkDryRun,           \* --dry-run of the running command
    wkWeek,             \* the week asked for
    wkIdx,              \* position of the for loop in sessions
    wkWrites,           \* Google Calendar write requests of the running command
    \* ---- _get_activity_detail called on its own
    detResps,           \* the statuses Strava answers to successive requests
    detOut,             \* [kind, attempts]: "pending" | "empty" | "json" | "raise"
    \* ---- places._notion_request called on its own
    nrMax,              \* argument max_retries
    nrPc,               \* "idle" | "loop" | "response" | "raised" | "none"
    nrAttempt,          \* the loop variable attempt
    nrBackoff,          \* the local backoff, in 1/10000 s
    nrSent,             \* requests sent so far
    nrSlept,            \* the sleeps made so far, in 1/10000 s, in order
    nrLast,             \* [out, waited]: how the latest attempt went
    \* ---- services/google_calendar.py upsert_sport_event, push_sport_event
    gcList,             \* calendarList of the OAuth user: set of entries
    gcEnv,              \* [sport, work]: SPORT_CALENDAR_ID, WORK_CALENDAR_ID
    gcEvents,           \* the events of the calendars, in the order inserted
    gcLast,             \* the latest call: its arguments and how it ended
    \* ---- services/strava_service.py StravaService
    ss,                 \* [now, env, trio, pc, token, expires_at, last]
    \* ---- places.py ensure_place_for_coord on the Places database
    pl,                 \* [schema, pages, last]
    \* ---- services/notion_plans.py: the Plans database seen by update_plan
    \* and backfill_iso_week_for_plans
    np,                 \* [weekType, options, pages, last]
    \* ---- worker threads of the UI running sync_strava_to_notion together
    sw                  \* [pages, seen, w]

actVars == <<clock, stravaActs, actSchema, actPages, seenActs, lastSyncEpoch,
             actPc, actArgs, actList, actIdx, created_or_updated, already,
             actResult, actLast, actTouched, actPrevOk, actFollows>>

rtVars == <<stravaRoutes, rtSchema, rtPages, seenRoutes, rtSynced,
           rtWriteFailed, rtPc,
            rtForce, rtSeen, rtList, rtIdx, rtCreated, rtSkipped, rtFailed,
            rtResult, rtLast>>

uiVars == <<uiThreads, uiStatus, uiBtnText>>

planVars == <<planPages, gcalEvents, planPc, planSessions, planIdx, planCount,
              planResult, planRuns>>

bootVars == <<bootEnv, bootEntry, bootPc, bootStep, bootCmd, bootRemote,
              bootCacheWrites>>

trimpVars == <<trimpIn, trimpOut>>

wkVars == <<wkSportCal, wkEvents, wkPc, wkDryRun, wkWeek, wkIdx, wkWrites>>

detVars == <<detResps, detOut>>

nrVars == <<nrMax, nrPc, nrAttempt, nrBackoff, nrSent, nrSlept, nrLast>>

gcVars == <<gcList, gcEnv, gcEvents, gcLast>>

ssVars == <<ss>>

plVars == <<pl>>

npVars == <<np>>

swVars == <<sw>>

\* the state of the commands and functions that are exercised on their own
fnVars == <<trimpVars, wkVars, detVars, nrVars, gcVars, ssVars, plVars, npVars, swVars>>

progVars == <<actVars, rtVars, uiVars, planVars, bootVars>>
notTrimpVars == <<progVars, wkVars, detVars, nrVars, gcVars, ssVars, plVars, npVars, swVars>>
notWkVars == <<progVars, trimpVars, detVars, nrVars, gcVars, ssVars, plVars, npVars, swVars>>
notDetVars == <<progVars, trimpVars, wkVars, nrVars, gcVars, ssVars, plVars, npVars, swVars>>
notNrVars == <<progVars, trimpVars, wkVars, detVars, gcVars, ssVars, plVars, npVars, swVars>>
notGcVars == <<progVars, trimpVars, wkVars, detVars, nrVars, ssVars, plVars, npVars, swVars>>
notSsVars == <<progVars, trimpVars, wkVars, detVars, nrVars, gcVars, plVars, npVars, swVars>>
notPlVars == <<progVars, trimpVars, wkVars, detVars, nrVars, gcVars, ssVars, npVars, swVars>>
notNpVars == <<progVars, trimpVars, wkVars, detVars, nrVars, gcVars, ssVars, plVars, swVars>>
notSwVars == <<progVars, trimpVars, wkVars, detVars, nrVars, gcVars, ssVars, plVars, npVars>>

vars == <<cmd, actVars, rtVars, uiVars, planVars, bootVars, fnVars>>

notActVars == <<rtVars, uiVars, planVars, bootVars, fnVars>>
notRtVars == <<actVars, uiVars, planVars, bootVars, fnVars>>
notUiVars == <<actVars, rtVars, planVars, bootVars, fnVars>>
notPlanVars == <<actVars, rtVars, uiVars, bootVars, fnVars>>
notBootVars == <<actVars, rtVars, uiVars, planVars, fnVars>>

(***************************************************************************)
(* Notion schemas of the activities database                               *)
(***************************************************************************)
Get(schema, name) == IF name \in DOMAIN schema THEN schema[name] ELSE "None"

ActSchemaFull ==
    [k \in {"Nom", "Date", "Sport", "Realisation", "Distance (km)",
            "Duree (s)", "D+ (m)", "D- (m)", "Strava ID", "Semaine ISO",
            "Annee", "Lien Strava", "FC moy (bpm)", "FC max (bpm)",
            "Charge TRIMP", "Suffer Score", "Cadence moy",
            "Puissance moy (W)", "NP / Watts ponderes", "Calories",
            "Depart", "Arrivee", "Ville - depart", "Ville - arrivee"} |->
        CASE k = "Nom" -> "title"
          [] k = "Date" -> "date"
          [] k \in {"Sport", "Ville - depart", "Ville - arrivee"} -> "select"
          [] k = "Realisation" -> "status"
          [] k \in {"Strava ID", "Semaine ISO"} -> "rich_text"
          [] k = "Lien Strava" -> "url"
          [] k \in {"Depart", "Arrivee"} -> "relation"
          [] OTHER -> "number"]

ActSchemaNumber ==
    [k \in {"Nom", "Date", "Strava ID", "FC moy (bpm)", "Realisation"} |->
        CASE k = "Nom" -> "title"
          [] k = "Date" -> "date"
          [] k = "Realisation" -> "select"
          [] OTHER -> "number"]

ActSchemaTitle ==
    [k \in {"Nom", "Strava ID", "Sport", "Depart", "Semaine ISO"} |->
        CASE k = "Nom" -> "rich_text"
          [] k = "Strava ID" -> "title"
          [] k = "Sport" -> "multi_select"
          [] k = "Depart" -> "relation"
          [] OTHER -> "text"]

ActSchemaNoId ==
    [k \in {"Nom", "Date", "Sport", "Charge TRIMP", "Ville - depart"} |->
        CASE k = "Nom" -> "title"
          [] k = "Date" -> "date"
          [] k = "Charge TRIMP" -> "number"
          [] OTHER -> "select"]

ActSchemas == {ActSchemaFull, ActSchemaNumber, ActSchemaTitle, ActSchemaNoId}

(***************************************************************************)
(* strava_to_notion.py helpers                                             *)
(***************************************************************************)
NoProp == [t |-> "none", v |-> 0]

\* _filter_by_strava_id: the query filter for the "Strava ID" property
FilterByStravaId(prop_type, strava_id) ==
    IF prop_type = "number" THEN [t |-> "number", v |-> strava_id]
    ELSE IF prop_type = "title" THEN [t |-> "title", v |-> strava_id]
    ELSE [t |-> "rich_text", v |-> strava_id]

\* notion.databases.query(filter on "Strava ID", page_size=1): the ids
\* (positions) of the pages whose "Strava ID" property matches the filter
QueryByStravaId(pages, filter) ==
    {i \in 1..Len(pages) : pages[i].sid = filter}

MinOf(S) == CHOOSE x \in S : \A y \in S : x <= y

\* fault variant of _find_page_id: the query never finds the page
FindNoPage(pages, prop_type, strava_id) == 0

\* _find_page_id: results[0]["id"] if results else None (0)
FindPageId(pages, prop_type, strava_id) ==
    LET results == QueryByStravaId(pages, FilterByStravaId(prop_type, strava_id))
    IN IF results = {} THEN 0 ELSE MinOf(results)

\* _props_for_db: one guarded assignment per property
PropsForDb(schema) ==
    (IF Get(schema, "Nom") = "title" THEN {"Nom"} ELSE {})
    \cup (IF Get(schema, "Date") = "date" THEN {"Date"} ELSE {})
    \cup (IF Get(schema, "Sport") = "select" THEN {"Sport"} ELSE {})
    \cup (IF Get(schema, "Realisation") \in {"status", "select"}
          THEN {"Realisation"} ELSE {})
    \cup (IF Get(schema, "Distance (km)") = "number" THEN {"Distance (km)"} ELSE {})
    \cup (IF Get(schema, "Duree (s)") = "number" THEN {"Duree (s)"} ELSE {})
    \cup (IF Get(schema, "D+ (m)") = "number" THEN {"D+ (m)"} ELSE {})
    \cup (IF Get(schema, "D- (m)") = "number" THEN {"D- (m)"} ELSE {})
    \cup (IF Get(schema, "Strava ID") \in {"number", "title"} THEN {"Strava ID"}
          ELSE IF Get(schema, "Strava ID") \in {"rich_text", "text", "None"}
               THEN (IF "Strava ID" \in DOMAIN schema THEN {"Strava ID"} ELSE {})
               ELSE {})
    \cup (IF Get(schema, "Semaine ISO") \in {"rich_text", "text"}
          THEN {"Semaine ISO"} ELSE {})
    \cup (IF Get(schema, "Annee") = "number" THEN {"Annee"} ELSE {})
    \cup (IF Get(schema, "Lien Strava") = "url" THEN {"Lien Strava"} ELSE {})

\* the value _props_for_db gives the "Strava ID" property
StravaIdProp(schema, strava_id) ==
    LET sid_type == Get(schema, "Strava ID")
    IN IF sid_type = "number" THEN [t |-> "number", v |-> strava_id]
       ELSE IF sid_type = "title" THEN [t |-> "title", v |-> strava_id]
       ELSE IF sid_type \in {"rich_text", "text", "None"}
                /\ "Strava ID" \in DOMAIN schema
            THEN [t |-> "rich_text", v |-> strava_id]
       ELSE NoProp

\* sync_strava_to_notion step 4: metrics, each only if present in the DB
MetricProps(schema) ==
    {"FC moy (bpm)", "FC max (bpm)", "Charge TRIMP", "Suffer Score",
     "Cadence moy", "Puissance moy (W)", "NP / Watts ponderes", "Calories"}
    \cap DOMAIN schema

\* fault variant of _filter_existing_props: the properties pass unfiltered
KeepAllProps(props, schema) == props

\* _filter_existing_props
FilterExistingProps(props, schema) == props \cap DOMAIN schema

\* build_activity_place_relations_from_strava: the keys it may return
PlaceOutcomes ==
    {{}, {"Depart", "Arrivee", "Ville - depart", "Ville - arrivee"}}

\* _get_activity_detail: the HTTP statuses of the attempts, in order
Statuses == {200, 404, 429, 500}

RECURSIVE DetailFrom(_, _)
DetailFrom(resps, i) ==
    IF i > DETAIL_ATTEMPTS THEN [kind |-> "empty", attempts |-> i - 1]
    ELSE IF resps[i] = 429 THEN DetailFrom(resps, i + 1)
    ELSE IF resps[i] \in {403, 404} THEN [kind |-> "empty", attempts |-> i]
    ELSE IF resps[i] >= 400 THEN [kind |-> "raise", attempts |-> i]
    ELSE [kind |-> "json", attempts |-> i]

\* fault variant of the loop of _get_activity_detail: a 5xx is tried again
RECURSIVE DetailFromRetry5xx(_, _)
DetailFromRetry5xx(resps, i) ==
    IF i > DETAIL_ATTEMPTS THEN [kind |-> "empty", attempts |-> i - 1]
    ELSE IF resps[i] = 429 \/ resps[i] >= 500
    THEN DetailFromRetry5xx(resps, i + 1)
    ELSE IF resps[i] \in {403, 404} THEN [kind |-> "empty", attempts |-> i]
    ELSE IF resps[i] >= 400 THEN [kind |-> "raise", attempts |-> i]
    ELSE [kind |-> "json", attempts |-> i]

GetActivityDetailRetry5xx(resps) == DetailFromRetry5xx(resps, 1)

GetActivityDetail(resps) == DetailFrom(resps, 1)

\* what _get_activity_detail can hand to the loop
DetailOutcomes ==
    {GetActivityDetail(resps).kind : resps \in [1..DETAIL_ATTEMPTS -> Statuses]}

\* fault variant of _mark_seen: the activity is not recorded
KeepSeen(seen, strava_id) == seen

\* _is_seen / _mark_seen / _clear_seen on seen_activities
IsSeen(seen, strava_id) == strava_id \in seen
MarkSeen(seen, strava_id) == seen \cup {strava_id}

\* fault variant: _mark_seen called before the Notion write
MarkBeforeWrite(seen, strava_id) == seen \cup {strava_id}

\* lines 418-423: when pages.update / pages.create raises, _mark_seen on the
\* line after them is not reached
SeenAfterFailedWrite(seen, strava_id) == seen

\* force = bool(full or env_force)
Force(args) == args.full \/ args.envForce

\* behaviours of the activity sync; under "checkpoint" every run is the
\* incremental one: sync_strava_to_notion() without --full, --since,
\* --places and without STRAVATION_FORCE
ActCmds == {"activities", "checkpoint"}

Incremental == cmd = "checkpoint"

\* after_epoch of sync_strava_to_notion
AfterEpoch(args, last, now) ==
    IF args.since # NoSince THEN args.since
    ELSE IF args.full THEN 0
    ELSE IF last # NoMeta THEN last
    ELSE now - DEFAULT_YEARS

\* fault variant: the checkpoint written on every exit of the run, as a
\* finally clause would
CheckpointOnAnyExit(last, now, result) == now

\* last_sync_epoch when sync_strava_to_notion is left: _set_meta is the
\* statement before return, an exception passes it by
CheckpointOnExit(last, now, result) ==
    IF result = "returned" THEN now ELSE last

\* GET /athlete/activities?after=: the activities started after the epoch,
\* oldest first
RECURSIVE SortedActs(_, _)
SortedActs(S, acts) ==
    IF S = {} THEN <<>>
    ELSE LET a == CHOOSE x \in S : \A y \in S :
                      \/ acts[x] < acts[y]
                      \/ (acts[x] = acts[y] /\ x <= y)
         IN <<a>> \o SortedActs(S \ {a}, acts)

IterStravaActivities(acts, after_epoch) ==
    SortedActs({a \in DOMAIN acts : acts[a] # Absent /\ acts[a] > after_epoch}, acts)

NoLast == [sid |-> 0, outcome |-> "none", payload |-> {}]
NoArgs == [full |-> FALSE, since |-> NoSince, places |-> FALSE, envForce |-> FALSE]
NoPrev == [since |-> NoSince, places |-> FALSE, ok |-> FALSE]

ActFresh ==
    /\ clock = 0
    /\ stravaActs = [a \in Activities |-> Absent]
    /\ actPages = <<>>
    /\ seenActs = {}
    /\ lastSyncEpoch = NoMeta
    /\ actPc = "idle"
    /\ actArgs = NoArgs
    /\ actList = <<>>
    /\ actIdx = 1
    /\ created_or_updated = 0
    /\ already = 0
    /\ actResult = "none"
    /\ actLast = NoLast
    /\ actTouched = FALSE
    /\ actPrevOk = NoPrev
    /\ actFollows = FALSE

InitAct == actSchema \in ActSchemas /\ ActFresh

QuietAct == actSchema = ActSchemaFull /\ ActFresh

(***************************************************************************)
(* Environment of the activity sync                                        *)
(***************************************************************************)
Tick ==
    /\ cmd \in ActCmds
    /\ actPc = "idle"
    /\ clock < MaxClock
    /\ clock' = clock + 1
    /\ UNCHANGED notActVars
    /\ UNCHANGED <<cmd, stravaActs, actSchema, actPages, seenActs, lastSyncEpoch,
                   actPc, actArgs, actList, actIdx, created_or_updated, already,
                   actResult, actLast, actTouched, actPrevOk, actFollows>>

\* an activity is recorded and uploaded to Strava. A run reads Strava once,
\* when it lists: an upload made while it loops is one made after it.
StravaUpload ==
    /\ cmd \in ActCmds
    /\ actPc = "idle"
    /\ \E a \in Activities, start \in 0..MaxClock :
        /\ stravaActs[a] = Absent
        /\ start <= clock
        /\ stravaActs' = [stravaActs EXCEPT ![a] = start]
    /\ actPrevOk' = NoPrev
    /\ UNCHANGED notActVars
    /\ UNCHANGED <<cmd, clock, actSchema, actPages, seenActs, lastSyncEpoch,
                   actPc, actArgs, actList, actIdx, created_or_updated, already,
                   actResult, actLast, actTouched, actFollows>>

\* the cache file ~/.stravation/state.sqlite is deleted between two runs
CacheDelete ==
    /\ cmd = "activities"
    /\ actPc = "idle"
    /\ seenActs # {} \/ lastSyncEpoch # NoMeta
    /\ seenActs' = {}
    /\ lastSyncEpoch' = NoMeta
    /\ actPrevOk' = NoPrev
    /\ UNCHANGED notActVars
    /\ UNCHANGED <<cmd, clock, stravaActs, actSchema, actPages,
                   actPc, actArgs, actList, actIdx, created_or_updated, already,
                   actResult, actLast, actTouched, actFollows>>

(***************************************************************************)
(* sync_strava_to_notion                                                   *)
(***************************************************************************)
\* Lines 332-356 and the first page of the listing: schema, force,
\* after_epoch, _clear_seen, token, GET /athlete/activities. "schemaFail":
\* the schema read raised; "listFail": the token refresh or the first
\* listing request raised, after _clear_seen.
ActStart ==
    /\ cmd \in ActCmds
    /\ actPc = "idle"
    /\ \E outcome \in {"ok", "schemaFail", "listFail"},
          full \in (IF Incremental THEN {FALSE} ELSE BOOLEAN) :
       \* env_force is read in "full or env_force" only; since and places are
       \* not read before the listing has succeeded
       \E envForce \in (IF full \/ Incremental THEN {FALSE} ELSE BOOLEAN),
          since \in (IF outcome = "ok" /\ ~Incremental
                     THEN Sinces ELSE {NoSince}),
          places \in (IF outcome = "ok" /\ ~Incremental
                      THEN BOOLEAN ELSE {FALSE}) :
        LET args == [full |-> full, since |-> since, places |-> places,
                     envForce |-> envForce]
            after_epoch == AfterEpoch(args, lastSyncEpoch, clock)
        IN /\ actArgs' = IF outcome = "ok" THEN args ELSE NoArgs
           /\ seenActs' = IF outcome # "schemaFail" /\ Force(args)
                          THEN {} ELSE seenActs
           /\ actList' = IF outcome = "ok"
                         THEN IterStravaActivities(stravaActs, after_epoch)
                         ELSE <<>>
           /\ actPc' = IF outcome = "ok" THEN "loop" ELSE "idle"
           /\ actResult' = IF outcome = "ok" THEN "none" ELSE "raised"
           /\ actFollows' = /\ outcome = "ok"
                            /\ ~Force(args)
                            /\ actPrevOk = [since |-> since, places |-> places,
                                            ok |-> TRUE]
    /\ actIdx' = 1
    /\ created_or_updated' = 0
    /\ already' = 0
    /\ actLast' = NoLast
    /\ actTouched' = FALSE
    /\ actPrevOk' = NoPrev
    /\ UNCHANGED notActVars
    /\ UNCHANGED <<cmd, clock, stravaActs, actSchema, actPages, lastSyncEpoch>>

\* one iteration of the for loop that takes the cache-hit path
ActSkip ==
    /\ cmd \in ActCmds
    /\ actPc = "loop"
    /\ actIdx <= Len(actList)
    /\ ~Force(actArgs) /\ IsSeen(seenActs, actList[actIdx])
    /\ already' = already + 1
    /\ actIdx' = actIdx + 1
    /\ actLast' = [NoLast EXCEPT !.sid = actList[actIdx], !.outcome = "skipped"]
    /\ UNCHANGED notActVars
    /\ UNCHANGED <<cmd, clock, stravaActs, actSchema, actPages, seenActs,
                   lastSyncEpoch, actPc, actArgs, actList, created_or_updated,
                   actResult, actTouched, actPrevOk, actFollows>>

\* 6) upsert: pages.update on the page found, else pages.create. A Notion
\* database has no order of its own: the pages are listed by source item.
UpsertPage(pages, page_id, src, sidProp) ==
    IF page_id # 0
    THEN [pages EXCEPT ![page_id] =
              [@ EXCEPT !.sid = IF sidProp = NoProp THEN @ ELSE sidProp]]
    ELSE LET k == Cardinality({i \in 1..Len(pages) : pages[i].src <= src})
         IN SubSeq(pages, 1, k) \o <<[src |-> src, sid |-> sidProp]>>
            \o SubSeq(pages, k + 1, Len(pages))

\* one iteration of the for loop that processes the activity
ActProcess ==
    /\ cmd \in ActCmds
    /\ actPc = "loop"
    /\ actIdx <= Len(actList)
    /\ ~(~Force(actArgs) /\ IsSeen(seenActs, actList[actIdx]))
    /\ \E detail \in {IF k = "raise" THEN "raise" ELSE "dict" :
                           k \in DetailOutcomes} :
       \* each call is made only if the ones before it returned
       \E placeOut \in (IF detail # "raise" /\ actArgs.places
                        THEN PlaceOutcomes \cup {{"httpError"}} ELSE {{}}) :
       \E queryOk \in (IF detail # "raise" /\ "Strava ID" \in DOMAIN actSchema
                       THEN BOOLEAN ELSE {TRUE}) :
       \E writeOk \in (IF detail # "raise" /\ queryOk
                       THEN BOOLEAN ELSE {TRUE}) :
        LET sid == actList[actIdx]
            base == PropsForDb(actSchema) \cup MetricProps(actSchema)
            placeProps == IF actArgs.places /\ placeOut # {"httpError"}
                          THEN FilterExistingProps(placeOut, actSchema)
                          ELSE {}
            props == base \cup placeProps
            placesTouched == actArgs.places /\ placeOut \notin {{}, {"httpError"}}
            hasId == "Strava ID" \in DOMAIN actSchema
            page_id == IF hasId
                       THEN FindPageId(actPages, Get(actSchema, "Strava ID"), sid)
                       ELSE 0
        IN IF detail = "raise" \/ (hasId /\ ~queryOk) \/ ~writeOk
           THEN \* the exception leaves sync_strava_to_notion
                /\ actPc' = "idle"
                /\ actResult' = "raised"
                /\ actTouched' = (actTouched \/
                                  (detail # "raise" /\ placesTouched))
                /\ already' = 0
                /\ actLast' = [NoLast EXCEPT
                                   !.outcome = IF detail = "raise"
                                               THEN "detailRaised"
                                               ELSE IF hasId /\ ~queryOk
                                               THEN "queryRaised"
                                               ELSE "writeRaised"]
                /\ actArgs' = NoArgs
                /\ actList' = <<>>
                /\ actIdx' = 1
                /\ created_or_updated' = 0
                /\ seenActs' = IF detail # "raise" /\ queryOk
                               THEN SeenAfterFailedWrite(seenActs, sid)
                               ELSE seenActs
                /\ lastSyncEpoch' =
                       CheckpointOnExit(lastSyncEpoch, clock, "raised")
                /\ UNCHANGED actPages
           ELSE /\ page_id = 0 => Len(actPages) < MaxPages
                /\ actPages' = UpsertPage(actPages, page_id, sid,
                                          IF "Strava ID" \in props
                                          THEN StravaIdProp(actSchema, sid)
                                          ELSE NoProp)
                /\ seenActs' = MarkSeen(seenActs, sid)
                /\ created_or_updated' = created_or_updated + 1
                /\ actIdx' = actIdx + 1
                /\ actList' = actList
                /\ actTouched' = TRUE
                /\ actLast' = [sid |-> sid,
                               outcome |-> IF page_id # 0 THEN "updated"
                                           ELSE "created",
                               payload |-> props]
                /\ UNCHANGED <<actPc, actResult, actArgs, already,
                               lastSyncEpoch>>
    /\ UNCHANGED notActVars
    /\ UNCHANGED <<cmd, clock, stravaActs, actSchema, actPrevOk, actFollows>>

\* line 429-430: the checkpoint, then return; the locals are gone
ActFinish ==
    /\ cmd \in ActCmds
    /\ actPc = "loop"
    /\ actIdx > Len(actList)
    /\ lastSyncEpoch' = CheckpointOnExit(lastSyncEpoch, clock, "returned")
    /\ actPc' = "idle"
    /\ actResult' = "returned"
    /\ actPrevOk' = IF ~Force(actArgs)
                    THEN [since |-> actArgs.since, places |-> actArgs.places,
                          ok |-> TRUE]
                    ELSE NoPrev
    /\ actList' = <<>>
    /\ actIdx' = 1
    /\ actArgs' = NoArgs
    /\ created_or_updated' = 0
    /\ already' = 0
    /\ actLast' = NoLast
    /\ actTouched' = FALSE
    /\ actFollows' = FALSE
    /\ UNCHANGED notActVars
    /\ UNCHANGED <<cmd, clock, stravaActs, actSchema, actPages, seenActs>>

(***************************************************************************)
(* Route sync: bounds, Strava routes, schemas of the GPX database          *)
(***************************************************************************)
NumRoutes == 2
MaxRev == 1

Routes == 1..NumRoutes

\* updated_at = rt.get("updated_at") or None
NoUpd == 0

NoRoute == [present |-> FALSE, updated_at |-> NoUpd, name |-> 0]
NoSeen == [seen |-> FALSE, updated_at |-> NoUpd, checksum |-> <<>>]
NoName == ""

RtSchemaFull ==
    [k \in {"Nom", "Type sport", "Distance (km)", "D+ (m)", "Fichier GPX",
            "Statut", "Lien Strava", "Date creation", "Pays", "Region",
            "Departement", "Zones", "Strava Route ID", "Ville - depart",
            "Ville - arrivee", "Depart", "Arrivee"} |->
        CASE k = "Nom" -> "title"
          [] k \in {"Distance (km)", "D+ (m)"} -> "number"
          [] k \in {"Fichier GPX", "Lien Strava"} -> "url"
          [] k = "Statut" -> "status"
          [] k = "Date creation" -> "date"
          [] k = "Zones" -> "multi_select"
          [] k = "Strava Route ID" -> "rich_text"
          [] k \in {"Depart", "Arrivee"} -> "relation"
          [] OTHER -> "select"]

RtSchemaNumber ==
    [k \in {"Name", "Type", "Distance", "Strava Route ID", "Country",
            "Depart", "Statut", "Ville - arrivee"} |->
        CASE k = "Name" -> "title"
          [] k \in {"Distance", "Strava Route ID"} -> "number"
          [] k = "Depart" -> "rich_text"
          [] OTHER -> "select"]

RtSchemaNoId ==
    [k \in {"Titre", "Zone", "URL", "Date", "Arrivee"} |->
        CASE k = "Titre" -> "title"
          [] k = "Zone" -> "multi_select"
          [] k = "URL" -> "url"
          [] k = "Date" -> "date"
          [] OTHER -> "relation"]

RtSchemas == {RtSchemaFull, RtSchemaNumber, RtSchemaNoId}

(***************************************************************************)
(* routes_to_notion.py and storage/db.py helpers                           *)
(***************************************************************************)
\* _first_existing: the first candidate that is a property of the schema
FirstExisting(schema, candidates) ==
    LET hits == {i \in 1..Len(candidates) : candidates[i] \in DOMAIN schema}
    IN IF hits = {} THEN NoName ELSE candidates[MinOf(hits)]

\* _filter_by_route_id
FilterByRouteId(prop_type, route_id) ==
    IF prop_type = "number" THEN [t |-> "number", v |-> route_id]
    ELSE IF prop_type = "title" THEN [t |-> "title", v |-> route_id]
    ELSE [t |-> "rich_text", v |-> route_id]

\* fault variant of _find_page_id_by_route_id: the query never finds the page
FindNoRoutePage(pages, prop_type, route_id) == 0

\* _find_page_id_by_route_id: res[0]["id"] if res else None (0)
FindPageIdByRouteId(pages, prop_type, route_id) ==
    LET res == {i \in 1..Len(pages) :
                    pages[i].sid = FilterByRouteId(prop_type, route_id)}
    IN IF res = {} THEN 0 ELSE MinOf(res)

\* _checksum_route: sha1 over id, the descriptive fields and updated_at
ChecksumRoute(rt) == <<rt.id, rt.name, rt.updated_at>>

\* fault variant of _should_process: every route is processed
ProcessAlways(rt, seen) == TRUE

\* fault variant of _should_process: only the missing marker is looked at
ProcessIfUnseen(rt, seen) == ~seen[rt.id].seen

\* _should_process
ShouldProcess(rt, seen) ==
    LET prev == seen[rt.id]
    IN IF ~prev.seen THEN TRUE
       ELSE IF rt.updated_at # NoUpd /\ rt.updated_at # prev.updated_at
       THEN TRUE
       ELSE IF ChecksumRoute(rt) # prev.checksum THEN TRUE
       ELSE FALSE

\* storage/db.py get_seen_routes: {route_id: (updated_at, checksum)}
GetSeenRoutes(table) == table

\* storage/db.py mark_route_seen: upsert of the row of the route
MarkRouteSeen(table, route_id, updated_at, checksum) ==
    [table EXCEPT ![route_id] = [seen |-> TRUE, updated_at |-> updated_at,
                                 checksum |-> checksum]]

\* _iter_strava_routes: GET /athlete/routes, in the order of Strava
RECURSIVE RoutesFrom(_, _)
RoutesFrom(routes, r) ==
    IF r > NumRoutes THEN <<>>
    ELSE (IF routes[r].present
          THEN <<[id |-> r, updated_at |-> routes[r].updated_at,
                  name |-> routes[r].name]>>
          ELSE <<>>) \o RoutesFrom(routes, r + 1)

IterStravaRoutes(routes) == RoutesFrom(routes, 1)

\* what the try block of lines 717-743 leaves behind: the values computed
\* before it ended, and whether it ended with an exception
GeoAll == {"start_rel", "start_city", "end_rel", "end_city", "country",
           "admin1", "admin2", "zones"}

GeoOutcomes ==
    {[facts |-> {}, failed |-> TRUE],
     [facts |-> {"start_rel", "start_city"}, failed |-> TRUE],
     [facts |-> GeoAll, failed |-> FALSE]}

\* _props_for_routes_db: the keys of the payload
PropsForRoutesDb(schema, facts) ==
    LET TITLE == FirstExisting(schema, <<"Nom", "Name", "Titre">>)
        SPORT == FirstExisting(schema, <<"Type sport", "Type">>)
        DIST == FirstExisting(schema, <<"Distance (km)", "Distance">>)
        GAIN == FirstExisting(schema, <<"D+ (m)", "D+">>)
        FILEU == FirstExisting(schema, <<"Fichier GPX", "Lien GPX", "GPX">>)
        STAT == FirstExisting(schema, <<"Statut", "Status">>)
        LINK == FirstExisting(schema, <<"Lien Strava", "Lien", "URL">>)
        CREATED_DATE == FirstExisting(schema, <<"Date creation", "Cree le",
                                               "Created at", "Created", "Date">>)
        PAYS == FirstExisting(schema, <<"Pays", "Country">>)
        REGION == FirstExisting(schema, <<"Region", "Region/Etat">>)
        DEPART == FirstExisting(schema, <<"Departement", "County", "Province">>)
        ZONES_PROP == FirstExisting(schema, <<"Zones", "Zone", "Massif">>)
        If(name, type, cond) ==
            IF name # NoName /\ Get(schema, name) = type /\ cond
            THEN {name} ELSE {}
    IN If(TITLE, "title", TRUE)
       \cup If(SPORT, "select", TRUE)
       \cup If(DIST, "number", TRUE)
       \cup If(GAIN, "number", TRUE)
       \cup If(FILEU, "url", TRUE)
       \cup If(LINK, "url", TRUE)
       \cup If(STAT, "status", TRUE)
       \cup (IF "Strava Route ID" \in DOMAIN schema
             THEN {"Strava Route ID"} ELSE {})
       \cup If("Ville - depart", "select", "start_city" \in facts)
       \cup If("Ville - arrivee", "select", "end_city" \in facts)
       \cup If(PAYS, "select", "country" \in facts)
       \cup If(REGION, "select", "admin1" \in facts)
       \cup If(DEPART, "select", "admin2" \in facts)
       \cup If(ZONES_PROP, "multi_select", "zones" \in facts)
       \cup If(CREATED_DATE, "date", TRUE)

\* the value _props_for_routes_db gives the "Strava Route ID" property
RouteIdProp(schema, route_id) ==
    IF "Strava Route ID" \notin DOMAIN schema THEN NoProp
    ELSE IF schema["Strava Route ID"] = "number"
    THEN [t |-> "number", v |-> route_id]
    ELSE IF schema["Strava Route ID"] = "title"
    THEN [t |-> "title", v |-> route_id]
    ELSE [t |-> "rich_text", v |-> route_id]

\* lines 752-755: relations towards the places DB
RelationProps(schema, facts) ==
    (IF Get(schema, "Depart") = "relation" /\ "start_rel" \in facts
     THEN {"Depart"} ELSE {})
    \cup (IF Get(schema, "Arrivee") = "relation" /\ "end_rel" \in facts
          THEN {"Arrivee"} ELSE {})

\* fault variant of lines 762-773: the upsert runs outside any try
UpsertUncaught(writeOk) == IF writeOk THEN "written" ELSE "raised"

\* lines 762-773: the upsert runs inside try/except Exception
UpsertOutcome(writeOk) == IF writeOk THEN "written" ELSE "caught"

\* the route sync is run by "routes"; "routeHistory" is the same command
\* observed with the history of failed writes
RouteCmds == {"routes", "routeHistory"}

\* history: the write of route rid succeeded or failed; failed is the route
\* of the latest failed write that no successful write has followed, or 0
NoteWrite(failed, rid, ok) ==
    IF cmd # "routeHistory" THEN failed
    ELSE IF ~ok THEN rid
    ELSE IF failed = rid THEN 0
    ELSE failed

NoRtLast == [rid |-> 0, outcome |-> "none", gpx |-> FALSE,
             gpxFailed |-> FALSE, payload |-> {}]

RtFresh ==
    /\ stravaRoutes = [r \in Routes |-> NoRoute]
    /\ rtPages = <<>>
    /\ seenRoutes = [r \in Routes |-> NoSeen]
    /\ rtSynced = [r \in Routes |-> NoSeen]
    /\ rtWriteFailed = 0
    /\ rtPc = "idle"
    /\ rtForce = FALSE
    /\ rtSeen = [r \in Routes |-> NoSeen]
    /\ rtList = <<>>
    /\ rtIdx = 1
    /\ rtCreated = 0
    /\ rtSkipped = 0
    /\ rtFailed = 0
    /\ rtResult = "none"
    /\ rtLast = NoRtLast

InitRt == rtSchema \in RtSchemas /\ RtFresh

QuietRt == rtSchema = RtSchemaFull /\ RtFresh

(***************************************************************************)
(* Environment of the route sync                                           *)
(***************************************************************************)
\* a route is drawn on Strava. A run reads Strava once, when it lists: a
\* change made while it loops is one made after it. Whether the route JSON
\* carries updated_at is a matter of the API: all routes have it or none.
RouteCreate ==
    /\ cmd \in RouteCmds
    /\ rtPc = "idle"
    /\ \E r \in Routes, stamped \in BOOLEAN :
        /\ ~stravaRoutes[r].present
        /\ \A q \in Routes :
               stravaRoutes[q].present =>
                   (stamped <=> stravaRoutes[q].updated_at # NoUpd)
        /\ stravaRoutes' = [stravaRoutes EXCEPT
                               ![r] = [present |-> TRUE,
                                       updated_at |-> IF stamped THEN 1
                                                      ELSE NoUpd,
                                       name |-> 0]]
    /\ UNCHANGED notRtVars
    /\ UNCHANGED <<cmd, rtSchema, rtPages, seenRoutes, rtSynced, rtWriteFailed,
                   rtPc, rtForce,
                   rtSeen, rtList, rtIdx, rtCreated, rtSkipped, rtFailed,
                   rtResult, rtLast>>

\* a route is edited on Strava: its description changes, and so does its
\* updated_at when Strava gives it one
RouteEdit ==
    /\ cmd \in RouteCmds
    /\ rtPc = "idle"
    /\ \E r \in Routes :
        /\ stravaRoutes[r].present
        /\ stravaRoutes[r].name < MaxRev
        /\ stravaRoutes' = [stravaRoutes EXCEPT
                               ![r].name = @ + 1,
                               ![r].updated_at = IF @ = NoUpd THEN @
                                                 ELSE @ + 1]
    /\ UNCHANGED notRtVars
    /\ UNCHANGED <<cmd, rtSchema, rtPages, seenRoutes, rtSynced, rtWriteFailed,
                   rtPc, rtForce,
                   rtSeen, rtList, rtIdx, rtCreated, rtSkipped, rtFailed,
                   rtResult, rtLast>>

(***************************************************************************)
(* sync_strava_routes_to_notion                                            *)
(***************************************************************************)
\* lines 682-697: init_db, schema, token, seen = get_seen_routes(), and the
\* first page of GET /athlete/routes
RtStart ==
    /\ cmd \in RouteCmds
    /\ rtPc = "idle"
    /\ \E force \in BOOLEAN,
          outcome \in {"ok", "schemaFail", "tokenFail", "listFail"} :
        /\ rtForce' = (force /\ outcome = "ok")
        /\ rtSeen' = IF outcome = "ok" THEN GetSeenRoutes(seenRoutes)
                     ELSE [r \in Routes |-> NoSeen]
        /\ rtList' = IF outcome = "ok" THEN IterStravaRoutes(stravaRoutes)
                     ELSE <<>>
        /\ rtPc' = IF outcome = "ok" THEN "loop" ELSE "idle"
        /\ rtResult' = IF outcome = "ok" THEN "none" ELSE "raised"
    /\ rtIdx' = 1
    /\ rtCreated' = 0
    /\ rtSkipped' = 0
    /\ rtFailed' = 0
    /\ rtLast' = NoRtLast
    /\ UNCHANGED notRtVars
    /\ UNCHANGED <<cmd, stravaRoutes, rtSchema, rtPages, seenRoutes, rtSynced,
                   rtWriteFailed>>

\* lines 703-705: the incremental decision says "nothing changed"
RtSkip ==
    /\ cmd \in RouteCmds
    /\ rtPc = "loop"
    /\ rtIdx <= Len(rtList)
    /\ ~rtForce /\ ~ShouldProcess(rtList[rtIdx], rtSeen)
    /\ rtSkipped' = rtSkipped + 1
    /\ rtIdx' = rtIdx + 1
    /\ rtLast' = [NoRtLast EXCEPT !.rid = rtList[rtIdx].id,
                                  !.outcome = "skipped"]
    /\ UNCHANGED notRtVars
    /\ UNCHANGED <<cmd, stravaRoutes, rtSchema, rtPages, seenRoutes, rtSynced,
                   rtWriteFailed, rtPc, rtForce, rtSeen, rtList, rtCreated, rtFailed,
                   rtResult>>

\* lines 707-775: GPX and geography, payload, query, upsert, marker
RtProcess ==
    /\ cmd \in RouteCmds
    /\ rtPc = "loop"
    /\ rtIdx <= Len(rtList)
    /\ ~(~rtForce /\ ~ShouldProcess(rtList[rtIdx], rtSeen))
    /\ \E geo \in GeoOutcomes :
       \* each call is made only if the one before it returned
       \E queryOk \in (IF "Strava Route ID" \in DOMAIN rtSchema
                       THEN BOOLEAN ELSE {TRUE}) :
       \E writeOk \in (IF queryOk THEN BOOLEAN ELSE {TRUE}) :
        LET rt == rtList[rtIdx]
            rid == rt.id
            props == PropsForRoutesDb(rtSchema, geo.facts)
                     \cup RelationProps(rtSchema, geo.facts)
            hasId == "Strava Route ID" \in DOMAIN rtSchema
            page_id == IF hasId
                       THEN FindPageIdByRouteId(rtPages,
                                Get(rtSchema, "Strava Route ID"), rid)
                       ELSE 0
            upsert == UpsertOutcome(writeOk)
        IN IF (hasId /\ ~queryOk) \/ upsert = "raised"
           THEN \* the exception leaves sync_strava_routes_to_notion
                /\ rtPc' = "idle"
                /\ rtResult' = "raised"
                /\ rtLast' = [NoRtLast EXCEPT
                                  !.rid = rid,
                                  !.gpx = TRUE,
                                  !.outcome = IF hasId /\ ~queryOk
                                              THEN "queryRaised"
                                              ELSE "writeRaised"]
                /\ rtList' = <<>>
                /\ rtIdx' = 1
                /\ rtForce' = FALSE
                /\ rtSeen' = [r \in Routes |-> NoSeen]
                /\ rtCreated' = 0
                /\ rtFailed' = 0
                /\ rtSkipped' = 0
                /\ UNCHANGED <<rtPages, seenRoutes, rtSynced, rtWriteFailed>>
           ELSE IF upsert = "caught"
           THEN \* print, then the next route
                /\ rtFailed' = rtFailed + 1
                /\ rtWriteFailed' = NoteWrite(rtWriteFailed, rid, FALSE)
                /\ rtIdx' = rtIdx + 1
                /\ rtLast' = [rid |-> rid, outcome |-> "writeFailed",
                              gpx |-> TRUE, gpxFailed |-> geo.failed,
                              payload |-> props]
                /\ UNCHANGED <<rtPages, seenRoutes, rtSynced, rtCreated, rtPc,
                               rtResult, rtList, rtForce, rtSeen, rtSkipped>>
           ELSE /\ page_id = 0 => Len(rtPages) < MaxPages
                /\ rtPages' = UpsertPage(rtPages, page_id, rid,
                                         RouteIdProp(rtSchema, rid))
                /\ rtCreated' = rtCreated + 1
                /\ seenRoutes' = MarkRouteSeen(seenRoutes, rid, rt.updated_at,
                                               ChecksumRoute(rt))
                /\ rtSynced' = [rtSynced EXCEPT
                                   ![rid] = [seen |-> TRUE,
                                             updated_at |-> rt.updated_at,
                                             checksum |-> <<rid, rt.name,
                                                            rt.updated_at>>]]
                /\ rtWriteFailed' = NoteWrite(rtWriteFailed, rid, TRUE)
                /\ rtIdx' = rtIdx + 1
                /\ rtLast' = [rid |-> rid,
                              outcome |-> IF page_id # 0 THEN "updated"
                                          ELSE "created",
                              gpx |-> TRUE, gpxFailed |-> geo.failed,
                              payload |-> props]
                /\ UNCHANGED <<rtFailed, rtPc, rtResult, rtList, rtForce,
                               rtSeen, rtSkipped>>
    /\ UNCHANGED notRtVars
    /\ UNCHANGED <<cmd, stravaRoutes, rtSchema>>

\* line 777: return created_or_updated, skipped; the locals are gone
RtFinish ==
    /\ cmd \in RouteCmds
    /\ rtPc = "loop"
    /\ rtIdx > Len(rtList)
    /\ rtPc' = "idle"
    /\ rtResult' = "returned"
    /\ rtList' = <<>>
    /\ rtIdx' = 1
    /\ rtForce' = FALSE
    /\ rtSeen' = [r \in Routes |-> NoSeen]
    /\ rtCreated' = 0
    /\ rtSkipped' = 0
    /\ rtFailed' = 0
    /\ rtLast' = NoRtLast
    /\ UNCHANGED notRtVars
    /\ UNCHANGED <<cmd, stravaRoutes, rtSchema, rtPages, seenRoutes, rtSynced,
                   rtWriteFailed>>

(***************************************************************************)
(* Desktop UI: App._sync_activities, App._sync_gpx, App._run_bg            *)
(***************************************************************************)
MaxThreads == 2

Threads == 1..MaxThreads

NoThread == [kind |-> "none", pc |-> "free", ok |-> FALSE]

InitUi ==
    /\ uiThreads = [t \in Threads |-> NoThread]
    /\ uiStatus = "ready"
    /\ uiBtnText = [b \in {"act", "gpx"} |-> "label"]

\* _run_bg: threading.Thread(target=job, daemon=True).start()
RunBg(threads, kind) ==
    LET free == {t \in Threads : threads[t].pc = "free"}
    IN [threads EXCEPT ![MinOf(free)] = [kind |-> kind, pc |-> "sync",
                                          ok |-> FALSE]]

\* click on "Synchroniser les activites": _sync_activities
UiSyncActivities ==
    /\ cmd = "ui"
    /\ \E t \in Threads : uiThreads[t].pc = "free"
    /\ uiStatus' = "act running"
    /\ uiBtnText' = [uiBtnText EXCEPT !["act"] = "running"]
    /\ uiThreads' = RunBg(uiThreads, "act")
    /\ UNCHANGED notUiVars
    /\ UNCHANGED cmd

\* click on "Synchroniser les GPX": _sync_gpx
UiSyncGpx ==
    /\ cmd = "ui"
    /\ \E t \in Threads : uiThreads[t].pc = "free"
    /\ uiStatus' = "gpx running"
    /\ uiBtnText' = [uiBtnText EXCEPT !["gpx"] = "running"]
    /\ uiThreads' = RunBg(uiThreads, "gpx")
    /\ UNCHANGED notUiVars
    /\ UNCHANGED cmd

\* job(): fn() returns or raises, then _set_status and the two self.after
UiJobEnd ==
    /\ cmd = "ui"
    /\ \E t \in Threads, ok \in BOOLEAN :
        /\ uiThreads[t].pc = "sync"
        /\ uiThreads' = [uiThreads EXCEPT ![t].pc = "after", ![t].ok = ok]
        /\ uiStatus' = IF ok THEN uiThreads[t].kind \o " ok"
                       ELSE uiThreads[t].kind \o " error"
    /\ UNCHANGED notUiVars
    /\ UNCHANGED <<cmd, uiBtnText>>

\* self.after(0, ...): the button shows the result
UiAfterResult ==
    /\ cmd = "ui"
    /\ \E t \in Threads :
        /\ uiThreads[t].pc = "after"
        /\ uiBtnText' = [uiBtnText EXCEPT ![uiThreads[t].kind] =
                             IF uiThreads[t].ok THEN "ok mark" ELSE "error mark"]
        /\ uiThreads' = [uiThreads EXCEPT ![t].pc = "restore"]
    /\ UNCHANGED notUiVars
    /\ UNCHANGED <<cmd, uiStatus>>

\* self.after(1400 | 1600, ...): the mark is removed from the button text
UiAfterRestore ==
    /\ cmd = "ui"
    /\ \E t \in Threads :
        /\ uiThreads[t].pc = "restore"
        /\ uiBtnText' = [uiBtnText EXCEPT ![uiThreads[t].kind] =
                             IF @ = "ok mark" THEN "ok"
                             ELSE IF @ = "error mark" THEN "error" ELSE @]
        /\ uiThreads' = [uiThreads EXCEPT ![t] = NoThread]
    /\ UNCHANGED notUiVars
    /\ UNCHANGED <<cmd, uiStatus>>

\* the sync jobs whose fn() is executing
RunningJobs == {t \in Threads : uiThreads[t].pc = "sync"}

(***************************************************************************)
(* Plans -> Google Calendar: push_plans_window, push_sport_event           *)
(***************************************************************************)
NumPlans == 2
MaxEvents == 3
MaxRuns == 2

Plans == 1..NumPlans

\* external_key: Optional[str] = None
NoKey == 0

\* the attributes of services/notion_plans.PlanSession
PlanSessionFields ==
    {"page_id", "title", "date", "sport", "types", "duration_min", "month",
     "notes", "distance_km"}

\* the attributes push_plans_window reads before it calls push_sport_event
PushArgsFields == {"date", "duration_min", "name", "sport", "types"}

\* the keyword parameters of notion_plans.ensure_month_and_duration, and
\* the keywords push_plans_window passes
EnsureParams == {"date", "duration_min"}
EnsureKeywords == {"page_id", "month_key", "duration_min"}

\* events().list(privateExtendedProperty="notion_page_id=<key>")
EventsWithKey(events, key) == {i \in 1..Len(events) : events[i].key = key}

\* push_sport_event: update the event found by its key, else insert
PushSportEvent(events, summary, external_key) ==
    LET existing == IF external_key # NoKey
                    THEN EventsWithKey(events, external_key) ELSE {}
    IN IF existing # {}
       THEN [events EXCEPT ![MinOf(existing)] =
                 [summary |-> summary, key |-> external_key]]
       ELSE Append(events, [summary |-> summary, key |-> external_key])

\* fetch_plan_sessions: the pages of the window, as PlanSession objects
RECURSIVE SeqOfSet(_)
SeqOfSet(S) ==
    IF S = {} THEN <<>>
    ELSE LET x == MinOf(S) IN <<x>> \o SeqOfSet(S \ {x})

FetchPlanSessions(pages) == SeqOfSet(pages)

InitPlan ==
    /\ planPages = {}
    /\ gcalEvents = <<>>
    /\ planPc = "idle"
    /\ planSessions = <<>>
    /\ planIdx = 1
    /\ planCount = 0
    /\ planResult = "none"
    /\ planRuns = 0

\* notion_plans.create_plan: a plan page enters the window
PlanCreate ==
    /\ cmd = "plan"
    /\ planPc = "idle"
    /\ \E pg \in Plans \ planPages : planPages' = planPages \cup {pg}
    /\ UNCHANGED notPlanVars
    /\ UNCHANGED <<cmd, gcalEvents, planPc, planSessions, planIdx, planCount,
                   planResult, planRuns>>

\* push_sport_event called with all its required arguments, with or without
\* external_key
PushSportEventCall ==
    /\ cmd = "plan"
    /\ planPc = "idle"
    /\ Len(gcalEvents) < MaxEvents
    /\ \E pg \in planPages, keyed \in BOOLEAN :
        gcalEvents' = PushSportEvent(gcalEvents, pg,
                                     IF keyed THEN pg ELSE NoKey)
    /\ UNCHANGED notPlanVars
    /\ UNCHANGED <<cmd, planPages, planPc, planSessions, planIdx, planCount,
                   planResult, planRuns>>

\* push_plans_window lines 15-16
PlanStart ==
    /\ cmd = "plan"
    /\ planPc = "idle"
    /\ planRuns < MaxRuns
    /\ planSessions' = FetchPlanSessions(planPages)
    /\ planIdx' = 1
    /\ planCount' = 0
    /\ planPc' = "loop"
    /\ planResult' = "none"
    /\ UNCHANGED notPlanVars
    /\ UNCHANGED <<cmd, planPages, gcalEvents, planRuns>>

\* push_plans_window lines 17-31: one iteration of the loop
PlanIter ==
    /\ cmd = "plan"
    /\ planPc = "loop"
    /\ planIdx <= Len(planSessions)
    /\ IF ~(PushArgsFields \subseteq PlanSessionFields)
       THEN \* AttributeError while the arguments are evaluated
            /\ planPc' = "idle"
            /\ planResult' = "raised"
            /\ planRuns' = planRuns + 1
            /\ UNCHANGED <<gcalEvents, planIdx, planCount>>
       ELSE /\ Len(gcalEvents) < MaxEvents
            /\ gcalEvents' = PushSportEvent(gcalEvents, planSessions[planIdx],
                                            NoKey)
            /\ IF EnsureKeywords \subseteq EnsureParams
               THEN /\ planIdx' = planIdx + 1
                    /\ planCount' = planCount + 1
                    /\ UNCHANGED <<planPc, planResult, planRuns>>
               ELSE \* TypeError: unexpected keyword argument
                    /\ planPc' = "idle"
                    /\ planResult' = "raised"
                    /\ planRuns' = planRuns + 1
                    /\ UNCHANGED <<planIdx, planCount>>
    /\ UNCHANGED notPlanVars
    /\ UNCHANGED <<cmd, planPages, planSessions>>

\* push_plans_window line 32: return count
PlanReturn ==
    /\ cmd = "plan"
    /\ planPc = "loop"
    /\ planIdx > Len(planSessions)
    /\ planPc' = "idle"
    /\ planResult' = "returned"
    /\ planRuns' = planRuns + 1
    /\ UNCHANGED notPlanVars
    /\ UNCHANGED <<cmd, planPages, gcalEvents, planSessions, planIdx,
                   planCount>>

(***************************************************************************)
(* Start-up: module imports of the two entry points, then the prologue of  *)
(* the sync that is started                                                *)
(***************************************************************************)
EnvNames ==
    {"NOTION_API_KEY", "NOTION_DB_ACTIVITIES", "STRAVA_CLIENT_ID",
     "STRAVA_CLIENT_SECRET", "STRAVA_REFRESH_TOKEN", "NOTION_DB_GPX",
     "NOTION_DB_PLACES", "NOTION_DB_PLANNING"}

\* config.py REQUIRED_ENV
REQUIRED_ENV ==
    {"NOTION_API_KEY", "NOTION_DB_ACTIVITIES", "STRAVA_CLIENT_ID",
     "STRAVA_CLIENT_SECRET", "STRAVA_REFRESH_TOKEN"}

StravaCredentials ==
    {"STRAVA_CLIENT_ID", "STRAVA_CLIENT_SECRET", "STRAVA_REFRESH_TOKEN"}

\* fault variant of the import-time checks: no module checks anything
NoModuleNeeds(m) == {}

\* the environment variables a module insists on while it is imported
ModuleNeeds(m) ==
    CASE m = "config" -> REQUIRED_ENV
      [] m = "places" -> {"NOTION_API_KEY", "NOTION_DB_PLACES"}
      [] m = "routes_to_notion" -> {"NOTION_DB_GPX", "NOTION_API_KEY"}
      [] m = "notion_plans" -> {"NOTION_API_KEY", "NOTION_DB_PLANNING"}
      [] OTHER -> {}

\* cli.py lines 9-26: the project modules in the order they are executed
CliImports ==
    <<"theme", "log", "config", "planner", "gcal_client", "places",
      "strava_to_notion", "routes_to_notion", "notion_plans",
      "google_calendar", "plan_to_calendar", "envtools", "db">>

\* ui/mini_app.py lines 15-48
UiImports ==
    <<"envtools", "strava_service", "notion_plans", "google_calendar",
      "config", "places", "strava_to_notion", "routes_to_notion">>

Imports(entry) == IF entry = "cli" THEN CliImports ELSE UiImports

\* sync_strava_to_notion lines 332-356: what each line needs and does
ActPrologue ==
    <<[needs |-> {"NOTION_API_KEY"}, does |-> "none"],
      [needs |-> {"NOTION_DB_ACTIVITIES"}, does |-> "none"],
      [needs |-> {}, does |-> "remote"],
      [needs |-> {}, does |-> "cache"],
      [needs |-> StravaCredentials, does |-> "remote"]>>

\* sync_strava_routes_to_notion lines 682-697
RtPrologue ==
    <<[needs |-> {}, does |-> "cache"],
      [needs |-> {}, does |-> "remote"],
      [needs |-> StravaCredentials, does |-> "remote"],
      [needs |-> {}, does |-> "none"],
      [needs |-> StravaCredentials, does |-> "remote"]>>

Prologue(c) == IF c = "activities" THEN ActPrologue ELSE RtPrologue

BootFresh ==
    /\ bootPc = "import"
    /\ bootStep = 1
    /\ bootCmd = "none"
    /\ bootRemote = 0
    /\ bootCacheWrites = 0

InitBoot ==
    /\ bootEnv \in SUBSET EnvNames
    /\ bootEntry \in {"cli", "ui"}
    /\ BootFresh

QuietBoot == bootEnv = EnvNames /\ bootEntry = "cli" /\ BootFresh

\* the interpreter executes the next imported module
BootImport ==
    /\ cmd = "boot"
    /\ bootPc = "import"
    /\ IF bootStep > Len(Imports(bootEntry))
       THEN bootPc' = "ready" /\ bootStep' = 1
       ELSE IF ModuleNeeds(Imports(bootEntry)[bootStep]) \subseteq bootEnv
       THEN bootPc' = "import" /\ bootStep' = bootStep + 1
       ELSE bootPc' = "failed" /\ bootStep' = bootStep
    /\ UNCHANGED notBootVars
    /\ UNCHANGED <<cmd, bootEnv, bootEntry, bootCmd, bootRemote,
                   bootCacheWrites>>

\* a sync command of the CLI, or a sync button of the UI
BootStartSync ==
    /\ cmd = "boot"
    /\ bootPc = "ready"
    /\ \E c \in {"activities", "routes"} : bootCmd' = c
    /\ bootPc' = "sync"
    /\ bootStep' = 1
    /\ UNCHANGED notBootVars
    /\ UNCHANGED <<cmd, bootEnv, bootEntry, bootRemote, bootCacheWrites>>

\* one line of the prologue of the sync function
BootSyncStep ==
    /\ cmd = "boot"
    /\ bootPc = "sync"
    /\ IF bootStep > Len(Prologue(bootCmd))
       THEN /\ bootPc' = "done"
            /\ UNCHANGED <<bootStep, bootRemote, bootCacheWrites>>
       ELSE LET line == Prologue(bootCmd)[bootStep]
            IN IF line.needs \subseteq bootEnv
               THEN /\ bootStep' = bootStep + 1
                    /\ bootPc' = "sync"
                    /\ bootRemote' = bootRemote
                                     + (IF line.does = "remote" THEN 1 ELSE 0)
                    /\ bootCacheWrites' = bootCacheWrites
                                     + (IF line.does = "cache" THEN 1 ELSE 0)
               ELSE /\ bootPc' = "failed"
                    /\ UNCHANGED <<bootStep, bootRemote, bootCacheWrites>>
    /\ UNCHANGED notBootVars
    /\ UNCHANGED <<cmd, bootEnv, bootEntry, bootCmd>>

(***************************************************************************)
(* _trimp_bannister (features/strava_to_notion.py; scripts/backfill_strava *)
(* carries the same function under the name trimp_bannister)               *)
(***************************************************************************)
NoValue == -1

\* sex is a string, a sequence of characters here; NoSex stands for None
NoSex == <<"None">>

TrimpDurations == {NoValue, 0, 1800, 2700}
TrimpHrAvgs == {NoValue, 0, 120, 150}
TrimpHrMaxs == {NoValue, 0, 55, 185}
TrimpHrRests == {60, 185}
TrimpSexes == {<<"M">>, <<"F">>, <<"f">>, <<"m">>, <<"F", "e", "m">>, <<>>,
               NoSex}

\* floats are fixed-point numbers with seven decimals
TrimpScale == 10000000

\* terms of the series of math.e ** x that are summed
ExpTerms == 16

\* t * num / den without leaving 32 bits
MulDiv(t, num, den) == (t \div den) * num + ((t % den) * num) \div den

\* math.e ** ((b / 100) * (n / den)), by its series
RECURSIVE ExpSum(_, _, _, _, _)
ExpSum(term, k, b, n, den) ==
    IF k > ExpTerms THEN 0
    ELSE term + ExpSum(MulDiv(MulDiv(term, n, den), b, 100 * k), k + 1,
                       b, n, den)

Exp(b, n, den) == ExpSum(TrimpScale, 1, b, n, den)

\* str.upper on one character
Upper(c) == IF c = "f" THEN "F" ELSE IF c = "m" THEN "M"
            ELSE IF c = "e" THEN "E" ELSE c

\* sex.upper().startswith("F")
StartsWithF(sex) == Len(sex) >= 1 /\ Upper(sex[1]) = "F"

\* fault variant of the coefficients: the male pair whatever the sex
CoeffsMale(sex) == [a |-> 64, b |-> 192]

\* line 201: a, b, in hundredths
Coeffs(sex) == IF StartsWithF(sex) THEN [a |-> 86, b |-> 167]
               ELSE [a |-> 64, b |-> 192]

\* "not x" of Python on an optional number
Falsy(x) == x = NoValue \/ x = 0

\* fault variant of the guard of line 197: "<" in the place of "<="
GuardStrict(duration_s, hr_avg, hr_max, hr_rest) ==
    Falsy(duration_s) \/ Falsy(hr_avg) \/ Falsy(hr_max) \/ hr_max < hr_rest

\* line 197: not duration_s or not hr_avg or not hr_max or hr_max <= hr_rest
Guard(duration_s, hr_avg, hr_max, hr_rest) ==
    Falsy(duration_s) \/ Falsy(hr_avg) \/ Falsy(hr_max) \/ hr_max <= hr_rest

\* round(x, 1), x in fixed point, as a number of tenths
RoundTenths(x) == (x + TrimpScale \div 20) \div (TrimpScale \div 10)

TrimpBannister(in) ==
    IF Guard(in.duration_s, in.hr_avg, in.hr_max, in.hr_rest)
    THEN [kind |-> "none", tenths |-> 0]
    ELSE IF in.hr_max = in.hr_rest      \* ZeroDivisionError
    THEN [kind |-> "raise", tenths |-> 0]
    ELSE IF in.sex = NoSex              \* AttributeError on None.upper()
    THEN [kind |-> "raise", tenths |-> 0]
    ELSE LET n == in.hr_avg - in.hr_rest
             den == in.hr_max - in.hr_rest
             c == Coeffs(in.sex)
             e == Exp(c.b, n, den)
             x == MulDiv(MulDiv(MulDiv(e, c.a, 100), n, den),
                         in.duration_s, 60)
         IN [kind |-> "value", tenths |-> RoundTenths(x)]

TrimpPending == [kind |-> "pending", tenths |-> 0]

TrimpInputs ==
    [duration_s : TrimpDurations, hr_avg : TrimpHrAvgs, hr_max : TrimpHrMaxs,
     hr_rest : TrimpHrRests, sex : TrimpSexes]

InitTrimp == trimpIn \in TrimpInputs /\ trimpOut = TrimpPending

QuietTrimp ==
    /\ trimpIn = [duration_s |-> NoValue, hr_avg |-> NoValue,
                  hr_max |-> NoValue, hr_rest |-> 60, sex |-> <<"M">>]
    /\ trimpOut = TrimpPending

\* the call of _trimp_bannister
TrimpCall ==
    /\ cmd = "trimp"
    /\ trimpOut = TrimpPending
    /\ trimpOut' = TrimpBannister(trimpIn)
    /\ UNCHANGED <<cmd, trimpIn, notTrimpVars>>

(***************************************************************************)
(* cli.py plan_to_gcal, core/planner.py week_plan,                         *)
(* integrations/gcal_client.py                                             *)
(***************************************************************************)
NumWeeks == 8

Weeks == 1..NumWeeks

\* week_plan: the sport of each of the seven days
WeekSports == <<"crossfit", "course", "crossfit", "course", "crossfit",
                "repos", "course">>

\* _stable_event_id(kind, title, date): one id per kind and day
StableEventId(kind, week, day) == <<kind, week, day>>

\* _stable_event_id: the characters put before the sha1 digest, "sn-"
EVENT_ID_PREFIX == <<"s", "n", "-">>

\* the characters of a sha1 hexdigest
HexDigits == {"0", "1", "2", "3", "4", "5", "6", "7", "8", "9",
              "a", "b", "c", "d", "e", "f"}

\* the characters Google Calendar accepts in an event id given by the
\* client: base32hex, the lowercase letters a to v and the digits
Base32Hex ==
    HexDigits \cup {"g", "h", "i", "j", "k", "l", "m", "n", "o", "p", "q",
                    "r", "s", "t", "u", "v"}

\* events().insert(body={..., "id": event_id}) is refused with 400 when the
\* id has a character outside base32hex
EventIdAccepted(prefix) ==
    /\ \A i \in 1..Len(prefix) : prefix[i] \in Base32Hex
    /\ HexDigits \subseteq Base32Hex

\* upsert_event: events().insert with the id; when it raises, for whatever
\* reason, events().update, which raises 404 when no event has the id
UpsertEventOutcome(events, event_id) ==
    IF EventIdAccepted(EVENT_ID_PREFIX) /\ event_id \notin events
    THEN "inserted"
    ELSE IF event_id \in events THEN "updated"
    ELSE "raised"

UpsertEventRequests(events, event_id) ==
    IF UpsertEventOutcome(events, event_id) = "inserted"
    THEN {"events.insert"}
    ELSE {"events.insert", "events.update"}

\* get_or_create_calendar_id: the write requests it sends
GetOrCreateCalendarRequests(listed) ==
    IF listed THEN {} ELSE {"calendars.insert", "calendarList.insert"}

InitWk ==
    /\ wkSportCal \in BOOLEAN
    /\ wkEvents = {}
    /\ wkPc = "idle"
    /\ wkDryRun = FALSE
    /\ wkWeek = 1
    /\ wkIdx = 1
    /\ wkWrites = {}

QuietWk ==
    /\ wkSportCal = TRUE
    /\ wkEvents = {}
    /\ wkPc = "idle"
    /\ wkDryRun = FALSE
    /\ wkWeek = 1
    /\ wkIdx = 1
    /\ wkWrites = {}

\* the user deletes the "Sport" calendar in Google Calendar
WkCalendarDeleted ==
    /\ cmd = "week"
    /\ wkPc = "idle"
    /\ wkSportCal
    /\ wkSportCal' = FALSE
    /\ wkEvents' = {}
    /\ UNCHANGED <<cmd, wkPc, wkDryRun, wkWeek, wkIdx, wkWrites, notWkVars>>

\* lines 129-130: cal_id = get_or_create_calendar_id(); week_plan(start)
WkStart ==
    /\ cmd = "week"
    /\ wkPc = "idle"
    /\ \E week \in Weeks, dry_run \in BOOLEAN :
        /\ wkWeek' = week
        /\ wkDryRun' = dry_run
    /\ wkWrites' = GetOrCreateCalendarRequests(wkSportCal)
    /\ wkSportCal' = TRUE
    /\ wkPc' = "show"
    /\ wkIdx' = 1
    /\ UNCHANGED <<cmd, wkEvents, notWkVars>>

\* lines 132-145: the table is printed; with --dry-run the command returns
WkShow ==
    /\ cmd = "week"
    /\ wkPc = "show"
    /\ wkPc' = IF wkDryRun THEN "idle" ELSE "push"
    /\ UNCHANGED <<cmd, wkSportCal, wkEvents, wkDryRun, wkWeek, wkIdx,
                   wkWrites, notWkVars>>

\* lines 148-169: one iteration of the loop over the sessions
WkPush ==
    /\ cmd = "week"
    /\ wkPc = "push"
    /\ wkIdx <= Len(WeekSports)
    /\ LET morning == StableEventId("morning", wkWeek, wkIdx)
           session == StableEventId("session", wkWeek, wkIdx)
           \* the calls of upsert_event of this iteration, in order
           ids == IF WeekSports[wkIdx] = "repos" THEN <<morning>>
                  ELSE <<session, morning>>
           first == UpsertEventOutcome(wkEvents, ids[1])
           second == IF Len(ids) = 2 /\ first # "raised"
                     THEN UpsertEventOutcome(wkEvents \cup {ids[1]}, ids[2])
                     ELSE first
           sent == IF Len(ids) = 2 /\ first # "raised" THEN {ids[1], ids[2]}
                   ELSE {ids[1]}
       IN /\ wkWrites' = wkWrites \cup
                 UNION {UpsertEventRequests(wkEvents, id) : id \in sent}
          /\ IF first = "raised" \/ second = "raised"
             THEN \* the HttpError of events().update leaves plan_to_gcal
                  /\ wkEvents' = wkEvents \cup
                         (IF first = "raised" THEN {} ELSE {ids[1]})
                  /\ wkPc' = "idle"
                  /\ wkIdx' = 1
             ELSE /\ wkEvents' = wkEvents \cup sent
                  /\ wkPc' = "push"
                  /\ wkIdx' = wkIdx + 1
    /\ UNCHANGED <<cmd, wkSportCal, wkDryRun, wkWeek, notWkVars>>

\* lines 171-174: the summary line, and the command ends
WkReturn ==
    /\ cmd = "week"
    /\ wkPc = "push"
    /\ wkIdx > Len(WeekSports)
    /\ wkPc' = "idle"
    /\ UNCHANGED <<cmd, wkSportCal, wkEvents, wkDryRun, wkWeek, wkIdx,
                   wkWrites, notWkVars>>

(***************************************************************************)
(* features/strava_to_notion.py _get_activity_detail, called on its own    *)
(***************************************************************************)
MaxResps == 3

\* 403 and 503 besides the statuses the sync is run with
DetailStatuses == Statuses \cup {403, 503}

DetailInputs == [1..MaxResps -> DetailStatuses]

DetailPending == [kind |-> "pending", attempts |-> 0]

InitDet == detResps \in DetailInputs /\ detOut = DetailPending

QuietDet == detResps = [i \in 1..MaxResps |-> 200] /\ detOut = DetailPending

\* the call of _get_activity_detail
DetailCall ==
    /\ cmd = "detail"
    /\ detOut = DetailPending
    /\ detOut' = GetActivityDetail(detResps)
    /\ UNCHANGED <<cmd, detResps, notDetVars>>

(***************************************************************************)
(* places.py _notion_request, called on its own                            *)
(***************************************************************************)
\* every caller leaves max_retries at its default of 5; the sleep of 12 s
\* is first made after a sixth failed attempt, so larger values are run too
MaxRetries == 7

BackoffUnit == 10000

BACKOFF_START == 1 * BackoffUnit

BACKOFF_CAP == 12 * BackoffUnit

\* how one attempt can go: a body, a status that raise_for_status or the
\* 429 branch turns into HTTPStatusError, an exception the except clause
\* names, or one it does not name (ConnectTimeout, WriteTimeout, ...)
AttemptOutcomes ==
    {"ok", "429", "400", "500", "ReadTimeout", "ConnectError",
     "RemoteProtocolError", "ConnectTimeout"}

\* line 52: the exceptions the except clause catches
Caught(out) ==
    out \in {"429", "400", "500", "ReadTimeout", "ConnectError",
             "RemoteProtocolError"}

\* fault variant of line 57: the backoff grows without a cap
NextBackoffNoCap(backoff) == (backoff * 18) \div 10

\* line 57: backoff = min(backoff * 1.8, 12.0)
NextBackoff(backoff) ==
    IF (backoff * 18) \div 10 < BACKOFF_CAP THEN (backoff * 18) \div 10
    ELSE BACKOFF_CAP

NoAttempt == [out |-> "none", waited |-> FALSE]

NrFresh ==
    /\ nrPc = "idle"
    /\ nrAttempt = 0
    /\ nrBackoff = 0
    /\ nrSent = 0
    /\ nrSlept = <<>>
    /\ nrLast = NoAttempt

InitNr == nrMax \in 1..MaxRetries /\ NrFresh

QuietNr == nrMax = 1 /\ NrFresh

\* lines 39-41: backoff = 1.0 and the head of for attempt in range(1, ...)
NrEnter ==
    /\ cmd = "notionRequest"
    /\ nrPc = "idle"
    /\ nrBackoff' = BACKOFF_START
    /\ nrAttempt' = 1
    /\ nrPc' = IF 1 <= nrMax THEN "loop" ELSE "none"
    /\ UNCHANGED <<cmd, nrMax, nrSent, nrSlept, nrLast, notNrVars>>

\* lines 42-57: one pass of the loop
NrAttempt ==
    /\ cmd = "notionRequest"
    /\ nrPc = "loop"
    /\ \E out \in AttemptOutcomes :
        /\ nrSent' = nrSent + 1
        /\ nrLast' = [out |-> out, waited |-> out = "429"]
        /\ IF out = "ok"
           THEN \* return r.json() if r.content else {}
                /\ nrPc' = "response"
                /\ UNCHANGED <<nrAttempt, nrBackoff, nrSlept>>
           ELSE IF ~Caught(out) \/ nrAttempt = nrMax
           THEN \* the exception leaves the function
                /\ nrPc' = "raised"
                /\ UNCHANGED <<nrAttempt, nrBackoff, nrSlept>>
           ELSE \* time.sleep(backoff), then the next attempt
                /\ nrSlept' = Append(nrSlept, nrBackoff)
                /\ nrBackoff' = NextBackoff(nrBackoff)
                /\ nrAttempt' = nrAttempt + 1
                /\ nrPc' = IF nrAttempt + 1 <= nrMax THEN "loop" ELSE "none"
    /\ UNCHANGED <<cmd, nrMax, notNrVars>>

(***************************************************************************)
(* services/google_calendar.py and services/gcal_service.py:               *)
(* upsert_sport_event, push_sport_event, assert_can_write_calendar         *)
(***************************************************************************)
NumKeys == 1

MaxDay == 3

MaxGcEvents == 2

\* values of external_key other than None
ExternalKeys == 1..NumKeys

\* the days a start time is taken from; a session starts at 07:00
StartDays == 0..MaxDay

DAY_MINUTES == 1440

START_OF_SESSION == 420

\* timedelta(days=2) on both sides of the looked-up window
WINDOW_DAYS == 2

NoHint == "None"

\* Google lists the primary calendar under its own id, the address of the
\* account, never under the alias "primary"
PrimaryEntry ==
    [id |-> "user@example.com", summary |-> "user@example.com",
     accessRole |-> "owner"]

SportId == "sport@group.calendar.google.com"

SportEntry(role) == [id |-> SportId, summary |-> "sport", accessRole |-> role]

CalendarLists ==
    {{PrimaryEntry}, {PrimaryEntry, SportEntry("writer")},
     {PrimaryEntry, SportEntry("reader")}}

\* what a calendar hint can be: absent, the alias, a name, an id
Hints == {NoHint, "primary", "sport", SportId}

\* "@" in hint
HasAt(hint) == hint \in {SportId, "user@example.com"}

\* _resolve_calendar_id
ResolveCalendarId(list, hint) ==
    IF hint = NoHint \/ hint = "primary" \/ HasAt(hint)
    THEN (IF hint = NoHint THEN "primary" ELSE hint)
    ELSE IF \E it \in list : it.summary = hint
    THEN (CHOOSE it \in list : it.summary = hint).id
    ELSE hint

\* _get_calendar_entry_from_list: the entry whose id is cal_id, or None
HasCalendarEntry(list, cal_id) == \E it \in list : it.id = cal_id

CalendarRole(list, cal_id) ==
    IF HasCalendarEntry(list, cal_id)
    THEN (CHOOSE it \in list : it.id = cal_id).accessRole
    ELSE "None"

\* assert_can_write_calendar with _assert_visible_calendar: the id, or
\* "raise" for RuntimeError
AssertCanWriteCalendar(list, hint) ==
    LET cal_id == ResolveCalendarId(list, hint)
    IN IF cal_id # "primary" /\ ~HasCalendarEntry(list, cal_id) THEN "raise"
       ELSE IF CalendarRole(list, cal_id) \notin {"owner", "writer"}
       THEN "raise"
       ELSE cal_id

\* _default_sport_calendar_hint
DefaultSportCalendarHint(env) ==
    IF env.sport # NoHint THEN env.sport ELSE env.work

\* events().list(calendarId, privateExtendedProperty, timeMin, timeMax):
\* the events of the calendar with the key that end after timeMin and start
\* before timeMax
EventsInWindow(events, cal_id, key, timeMin, timeMax) ==
    {i \in 1..Len(events) : /\ events[i].cal = cal_id
                            /\ events[i].key = key
                            /\ events[i].end > timeMin
                            /\ events[i].start < timeMax}

\* the body shared by upsert_sport_event and push_sport_event: update the
\* first event the lookup returns, else insert
UpsertEvent(events, cal_id, start, duration_min, key) ==
    LET end == start + (IF duration_min = 0 THEN 60 ELSE duration_min)
        body == [cal |-> cal_id, key |-> key, start |-> start, end |-> end]
        existing == IF key # NoKey
                    THEN EventsInWindow(events, cal_id, key,
                                        start - WINDOW_DAYS * DAY_MINUTES,
                                        end + WINDOW_DAYS * DAY_MINUTES)
                    ELSE {}
    IN IF existing # {}
       THEN [events EXCEPT ![MinOf(existing)] = body]
       ELSE Append(events, body)

NoCall == [fn |-> "none", hint |-> NoHint, key |-> NoKey, cal |-> "None",
           result |-> "none"]

GcFresh == gcEvents = <<>> /\ gcLast = NoCall

InitGc ==
    /\ gcList \in CalendarLists
    /\ gcEnv \in [sport : {NoHint, SportId}, work : {NoHint, "sport"}]
    /\ GcFresh

QuietGc ==
    /\ gcList = {PrimaryEntry}
    /\ gcEnv = [sport |-> NoHint, work |-> NoHint]
    /\ GcFresh

\* a call of upsert_sport_event; calendar_id is an id the caller resolved
UpsertSportEventCall ==
    /\ cmd = "gcal"
    /\ \E key \in ExternalKeys \cup {NoKey}, day \in StartDays,
          duration_min \in {0, 60} :
        LET cal_id == SportId
            start == day * DAY_MINUTES + START_OF_SESSION
            after == UpsertEvent(gcEvents, cal_id, start, duration_min, key)
        IN /\ AssertCanWriteCalendar(gcList, cal_id) = cal_id
           /\ Len(after) <= MaxGcEvents
           /\ gcEvents' = after
           /\ gcLast' = [fn |-> "upsert", hint |-> cal_id, key |-> key,
                         cal |-> cal_id,
                         result |-> IF Len(after) > Len(gcEvents)
                                    THEN "inserted" ELSE "updated"]
    /\ UNCHANGED <<cmd, gcList, gcEnv, notGcVars>>

\* a call of push_sport_event
PushSportEventOnCalendar ==
    /\ cmd = "gcal"
    /\ \E calendar_hint \in Hints, key \in ExternalKeys \cup {NoKey},
          day \in StartDays :
        LET default == DefaultSportCalendarHint(gcEnv)
            hint == IF calendar_hint # NoHint THEN calendar_hint
                    ELSE IF default # NoHint THEN default
                    ELSE "primary"
            cal_id == AssertCanWriteCalendar(gcList, hint)
            start == day * DAY_MINUTES + START_OF_SESSION
            after == UpsertEvent(gcEvents, cal_id, start, 60, key)
        IN IF cal_id = "raise"
           THEN /\ gcLast' = [fn |-> "push", hint |-> calendar_hint,
                              key |-> key, cal |-> "None",
                              result |-> "raised"]
                /\ UNCHANGED gcEvents
           ELSE /\ Len(after) <= MaxGcEvents
                /\ gcEvents' = after
                /\ gcLast' = [fn |-> "push", hint |-> calendar_hint,
                              key |-> key, cal |-> cal_id,
                              result |-> IF Len(after) > Len(gcEvents)
                                         THEN "inserted" ELSE "updated"]
    /\ UNCHANGED <<cmd, gcList, gcEnv, notGcVars>>

(***************************************************************************)
(* services/strava_service.py StravaService: _bootstrap_token,             *)
(* _refresh_access_token_or_raise, _auth_headers, _req                     *)
(***************************************************************************)
MaxTicks == 4

\* seconds between two looks at the clock
TICK == 30

\* the 60.0 of "exp > now + 60.0" and "_expires_at < time.time() + 60.0"
EXPIRY_MARGIN == 60

\* exp = now + 1800.0 when STRAVA_EXPIRES_AT is not set
ASSUMED_LIFE == 1800

\* payload.get("expires_at", time.time() + 3600.0)
DEFAULT_LIFE == 3600

NoExp == -1

BadExp == -2

\* STRAVA_ACCESS_TOKEN / STRAVA_EXPIRES_AT as the process finds them
SsEnvs ==
    [tok : BOOLEAN, exp : {NoExp, BadExp, 30, 60, 90}]

RefreshFails == -3

\* what POST /oauth/token answers: an error status (RefreshFails), or a
\* token with its expires_at as seconds from now (absent: NoExp)
RefreshAnswers == {RefreshFails, NoExp, 90}

NoRequest == [fn |-> "none", sent |-> FALSE, refreshed |-> FALSE,
              expires_at |-> 0, at |-> 0, result |-> "none"]

\* fault variant of the test of _auth_headers: no margin of 60 s
NeedsRefreshNoMargin(token, expires_at, now) ==
    ~token \/ expires_at < now

\* _auth_headers: not self._access_token or self._expires_at < now + 60.0
NeedsRefresh(token, expires_at, now) ==
    ~token \/ expires_at < now + EXPIRY_MARGIN

\* _bootstrap_token: the expiry it gives the token of the environment, and
\* whether it keeps that token
BootstrapExp(env, now) ==
    IF env.exp = NoExp THEN now + ASSUMED_LIFE
    ELSE IF env.exp = BadExp THEN now
    ELSE env.exp

BootstrapKeeps(env, now) == env.tok /\ BootstrapExp(env, now) > now + EXPIRY_MARGIN

\* _refresh_access_token_or_raise: the state after it, or the error it
\* raised; answer is what the token endpoint replies
RefreshAccessTokenOrRaise(s, answer) ==
    IF ~s.trio THEN [s EXCEPT !.raised = "RuntimeError"]
    ELSE IF answer = RefreshFails
    THEN [s EXCEPT !.raised = "HTTPStatusError"]
    ELSE LET exp == s.now + (IF answer = NoExp THEN DEFAULT_LIFE ELSE answer)
         IN [s EXCEPT !.token = TRUE, !.expires_at = exp,
                      !.env = [tok |-> TRUE, exp |-> exp],
                      !.raised = "None"]

InitSs ==
    ss \in [now : {0}, env : SsEnvs, trio : BOOLEAN, pc : {"none"},
            token : {FALSE}, expires_at : {0}, raised : {"None"},
            last : {NoRequest}]

QuietSs ==
    ss = [now |-> 0, env |-> [tok |-> FALSE, exp |-> NoExp], trio |-> TRUE,
          pc |-> "none", token |-> FALSE, expires_at |-> 0,
          raised |-> "None", last |-> NoRequest]

\* time passes
SsTick ==
    /\ cmd = "strava"
    /\ ss.now < MaxTicks * TICK
    /\ ss' = [ss EXCEPT !.now = @ + TICK]
    /\ UNCHANGED <<cmd, notSsVars>>

\* StravaService(): __init__ and _bootstrap_token
SsConstruct ==
    /\ cmd = "strava"
    /\ ss.pc = "none"
    /\ \E answer \in RefreshAnswers :
        LET fresh == [ss EXCEPT !.token = FALSE, !.expires_at = 0,
                                !.raised = "None"]
            after == IF BootstrapKeeps(ss.env, ss.now)
                     THEN [fresh EXCEPT !.token = TRUE,
                                        !.expires_at =
                                            BootstrapExp(ss.env, ss.now)]
                     ELSE RefreshAccessTokenOrRaise(fresh, answer)
        IN ss' = [after EXCEPT
                     !.pc = IF after.raised = "None" THEN "ready"
                            ELSE "none",
                     !.last = [fn |-> "init", sent |-> FALSE,
                               refreshed |-> ~BootstrapKeeps(ss.env, ss.now)
                                             /\ after.raised = "None",
                               expires_at |-> after.expires_at,
                               at |-> ss.now, result |-> after.raised]]
    /\ UNCHANGED <<cmd, notSsVars>>

\* _req: headers.update(self._auth_headers()), then self._client.request
SsReq ==
    /\ cmd = "strava"
    /\ ss.pc = "ready"
    /\ \E answer \in RefreshAnswers :
        LET refresh == NeedsRefresh(ss.token, ss.expires_at, ss.now)
            after == IF refresh
                     THEN RefreshAccessTokenOrRaise(
                              [ss EXCEPT !.raised = "None"], answer)
                     ELSE [ss EXCEPT !.raised = "None"]
        IN ss' = [after EXCEPT
                     !.last = [fn |-> "req",
                               sent |-> after.raised = "None",
                               refreshed |-> refresh /\ after.raised = "None",
                               expires_at |-> after.expires_at,
                               at |-> ss.now, result |-> after.raised]]
    /\ UNCHANGED <<cmd, notSsVars>>

(***************************************************************************)
(* places.py: _as_prop, _clean_props, _query_place_by_commune,             *)
(* _create_place, _update_place_if_needed, ensure_place_for_coord          *)
(***************************************************************************)
NumCoords == 3

\* rounded start or end points of activities; NoCoord: latlng is None
Coords == 1..NumCoords

NoCoord == 0

\* reverse_geocode: neighbouring points lie in the same commune
CommuneOf(coord) == (coord + 1) \div 2

\* the title of the place: geo.get("commune") or f"{lat},{lon}"
PlaceTitle(coord, geoOk) ==
    IF geoOk THEN <<"commune", CommuneOf(coord)>> ELSE <<"latlon", coord>>

PlaceTitles ==
    {<<"commune", CommuneOf(c)>> : c \in Coords}
        \cup {<<"latlon", c>> : c \in Coords}

\* the Places database without a page: title -> number of pages
NoPlaces == [t \in PlaceTitles |-> 0]

PlacesSchemaFull ==
    [k \in {"Commune", "Latitude", "Longitude", "Pays", "Region/Departement"}
        |-> CASE k = "Commune" -> "title"
              [] k \in {"Latitude", "Longitude"} -> "number"
              [] OTHER -> "select"]

\* Places databases: complete, without "Pays", with the coordinates kept as
\* text and no region, with the title alone
PlacesSchemas ==
    {PlacesSchemaFull,
     [k \in {"Commune", "Latitude", "Longitude", "Region/Departement"}
         |-> PlacesSchemaFull[k]],
     [k \in {"Commune", "Latitude", "Longitude", "Pays"}
         |-> IF k \in {"Latitude", "Longitude"} THEN "rich_text"
             ELSE PlacesSchemaFull[k]],
     [k \in {"Commune"} |-> "title"]}

\* fault variant of _as_prop: nothing is built for a property the schema
\* does not have
AsPropIfPresent(schema, name, present) ==
    IF ~present THEN "None"
    ELSE IF name \notin DOMAIN schema THEN "None"
    ELSE schema[name]

\* _as_prop: the type of the value it builds, "None" when value is None;
\* an unknown type, or no such property, falls through to rich_text
AsProp(schema, name, present) ==
    IF ~present THEN "None"
    ELSE LET ptype == Get(schema, name)
         IN IF ptype \in {"number", "select", "multi_select", "title"}
            THEN ptype
            ELSE "rich_text"

\* _clean_props over the properties of a place: name -> type of the value
PlaceProps(schema, withTitle, country, region) ==
    LET given == [k \in {"Commune", "Latitude", "Longitude", "Pays",
                         "Region/Departement"}
                    |-> CASE k = "Commune" -> withTitle
                          [] k = "Pays" -> country
                          [] k = "Region/Departement" -> region
                          [] OTHER -> TRUE]
        kept == {k \in DOMAIN given : AsProp(schema, k, given[k]) # "None"}
    IN [k \in kept |-> AsProp(schema, k, given[k])]

\* Notion answers 400 to a page write that names a property the database
\* does not have, or gives a value of another type than the property's
NotionAcceptsProps(schema, props) ==
    \A k \in DOMAIN props : k \in DOMAIN schema /\ schema[k] = props[k]

\* fault variant of _query_place_by_commune: no page is ever found
QueryNoPlace(pages, commune) == FALSE

\* _query_place_by_commune: whether a page whose title equals commune is
\* returned
QueryPlaceByCommune(pages, commune) == pages[commune] > 0

NoProps == [k \in {} |-> "None"]

NoPlaceCall == [coord |-> NoCoord, title |-> <<>>, found |-> FALSE,
                props |-> NoProps, result |-> "none"]

InitPl == pl \in [schema : PlacesSchemas, pages : {NoPlaces}, last : {NoPlaceCall}]

QuietPl == pl = [schema |-> PlacesSchemaFull, pages |-> NoPlaces,
                 last |-> NoPlaceCall]

\* a call of ensure_place_for_coord
EnsurePlaceForCoord ==
    /\ cmd = "places"
    /\ \E coord \in Coords \cup {NoCoord}, geoOk \in BOOLEAN :
       \E country \in (IF geoOk THEN BOOLEAN ELSE {FALSE}),
          region \in (IF geoOk THEN BOOLEAN ELSE {FALSE}),
          queryOk \in BOOLEAN :
       \E writeOk \in (IF queryOk THEN BOOLEAN ELSE {TRUE}) :
        IF coord = NoCoord
        THEN pl' = [pl EXCEPT !.last = [NoPlaceCall EXCEPT
                                           !.result = "None"]]
        ELSE LET commune == PlaceTitle(coord, geoOk)
                 queried == queryOk /\ Get(pl.schema, "Commune") = "title"
                 page == QueryPlaceByCommune(pl.pages, commune)
                 props == PlaceProps(pl.schema, ~page, country, region)
                 written == /\ queried
                            /\ writeOk
                            /\ NotionAcceptsProps(pl.schema, props)
             IN pl' = [pl EXCEPT
                   !.pages = IF written /\ ~page
                             THEN [@ EXCEPT ![commune] = @ + 1] ELSE @,
                   !.last = [coord |-> coord, title |-> commune,
                             found |-> queried /\ page,
                             props |-> IF queried THEN props ELSE NoProps,
                             result |-> IF ~written THEN "raised"
                                        ELSE IF ~page THEN "created"
                                        ELSE "updated"]]
    /\ UNCHANGED <<cmd, notPlVars>>

(***************************************************************************)
(* services/notion_plans.py: _ensure_select_option,                        *)
(* _build_properties_payload, update_plan, backfill_iso_week_for_plans     *)
(***************************************************************************)
NumLabels == 2

NumPlanPages == 2

\* ISO week labels 'YYYY-Www'; NowLabel is the label of _now_tz()
WeekLabels == 1..NumLabels

NowLabel == 1

NoLabel == 0

PlanPages == 1..NumPlanPages

\* keyword arguments of update_plan and the property kind of each; types is
\* handled as sport is, distance_km as duration_min is
PlanFields == {"title", "date", "sport", "duration_min", "notes"}

\* what fields.get sees: "absent" (not passed), "None" or a value; the
\* dialog passes notes or None, a caller may pass date=None
FieldValues(field) ==
    IF field \in {"date", "notes"} THEN {"absent", "None", "value"}
    ELSE {"absent", "value"}

UpdatePlanFields ==
    {f \in [PlanFields -> {"absent", "None", "value"}] :
        \A k \in PlanFields : f[k] \in FieldValues(k)}

\* the page the dialog was opened on
ExistingPage == 1

KindOf(field) == IF field = "duration_min" THEN "duration" ELSE field

\* type of the "Semaine ISO" property, "none" when the database has none
WeekTypes == {"select", "rich_text", "none"}

\* _resolve_property_name(kind) is not None
Resolves(weekType, kind) == kind = "iso_week" => weekType # "none"

\* _ensure_select_option: the option set of the select property after the
\* call; databases.update is sent when the option is new
EnsureSelectOption(weekType, options, label) ==
    IF weekType # "select" THEN options
    ELSE IF label \in options THEN options
    ELSE options \cup {label}

\* _build_properties_payload: the kinds it fills; f maps a field to
\* "absent" / "None" / "value" as fields.get sees it
BuildPropertiesPayload(weekType, f) ==
    {"title", "date", "month"}
        \cup {k \in {"sport", "notes"} : f[k] = "value"}
        \cup (IF f["duration_min"] = "value" THEN {"duration"} ELSE {})
        \cup (IF weekType # "none" THEN {"iso_week"} ELSE {})

\* requested_kinds of update_plan
RequestedKinds(f) ==
    {KindOf(k) : k \in {x \in PlanFields : f[x] # "absent"}}
        \cup (IF f["date"] # "absent" THEN {"month", "iso_week"} ELSE {})

NoPlanCall == [fn |-> "none", fields |-> <<>>, payload |-> {},
               schemaWrites |-> {}, pageWrites |-> {}, dry_run |-> FALSE,
               updated |-> 0]

PlanDbPages == [PlanPages -> [date : WeekLabels \cup {NoLabel},
                              week : WeekLabels \cup {NoLabel}]]

\* the value of a select property is one of its options
InitNp ==
    np \in {d \in [weekType : WeekTypes, options : SUBSET WeekLabels,
                   pages : PlanDbPages, last : {NoPlanCall}] :
              /\ d.weekType # "select" => d.options = {}
              /\ d.weekType = "none" =>
                    \A g \in PlanPages : d.pages[g].week = NoLabel
              /\ d.weekType = "select" =>
                    \A g \in PlanPages :
                        d.pages[g].week \in d.options \cup {NoLabel}}

BlankPlanPage == [date |-> NoLabel, week |-> NoLabel]

QuietNp == np = [weekType |-> "none", options |-> {},
                 pages |-> [g \in PlanPages |-> BlankPlanPage],
                 last |-> NoPlanCall]

\* update_plan(page_id, **fields) on the page of the dialog; dateLabel is
\* the week of the date passed
UpdatePlan ==
    /\ cmd = "updatePlan"
    /\ \E g \in {ExistingPage}, f \in UpdatePlanFields,
          dateLabel \in WeekLabels :
        LET label == IF f["date"] = "value" THEN dateLabel ELSE NowLabel
            options == EnsureSelectOption(np.weekType, np.options, label)
            keep == {k \in RequestedKinds(f) : Resolves(np.weekType, k)}
            payload == BuildPropertiesPayload(np.weekType, f) \cap keep
        IN /\ f["date"] # "value" => dateLabel = NowLabel
           /\ np' = [np EXCEPT
                 !.options = options,
                 !.pages[g] = [date |-> IF "date" \in payload
                                        THEN label ELSE @.date,
                               week |-> IF "iso_week" \in payload
                                        THEN label ELSE @.week],
                 !.last = [NoPlanCall EXCEPT
                              !.fn = "update_plan",
                              !.fields = f,
                              !.payload = payload,
                              !.schemaWrites = options \ np.options,
                              !.pageWrites = {g}]]
    /\ UNCHANGED <<cmd, notNpVars>>

\* pages whose "Semaine ISO" differs from the week of their date
StaleWeek(pages) ==
    {g \in PlanPages : pages[g].date # NoLabel
                          /\ pages[g].week # pages[g].date}

\* backfill_iso_week_for_plans(dry_run=...): the loop over the pages
BackfillIsoWeekForPlans ==
    /\ cmd = "backfill"
    /\ \E dry_run \in BOOLEAN :
        LET stale == IF np.weekType = "none" THEN {} ELSE StaleWeek(np.pages)
            labels == {np.pages[g].date : g \in stale}
            options == IF np.weekType = "select"
                       THEN np.options \cup labels ELSE np.options
            written == IF dry_run THEN {} ELSE stale
        IN np' = [np EXCEPT
                 !.options = options,
                 !.pages = [g \in PlanPages |->
                              IF g \in written
                              THEN [date |-> np.pages[g].date,
                                    week |-> np.pages[g].date]
                              ELSE np.pages[g]],
                 !.last = [NoPlanCall EXCEPT
                              !.fn = "backfill",
                              !.dry_run = dry_run,
                              !.schemaWrites = options \ np.options,
                              !.pageWrites = written,
                              !.updated = Cardinality(written)]]
    /\ UNCHANGED <<cmd, notNpVars>>

\* a date is entered or changed on a page in the Notion UI
PlanDateEdited ==
    /\ cmd = "backfill"
    /\ \E g \in PlanPages, d \in WeekLabels :
        /\ np.pages[g].date # d
        /\ np' = [np EXCEPT !.pages[g].date = d, !.last = NoPlanCall]
    /\ UNCHANGED <<cmd, notNpVars>>

(***************************************************************************)
(* ui/mini_app.py App._run_bg with features/strava_to_notion.py            *)
(* sync_strava_to_notion: worker threads on one cache and one database     *)
(***************************************************************************)
NumWorkers == 2

NumSyncActs == 2

Workers == 1..NumWorkers

\* the listing every worker gets from Strava: the Strava IDs, oldest first
SyncList == [i \in 1..NumSyncActs |-> i]

IdleWorker == [pc |-> "idle", idx |-> 1, found |-> FALSE]

InitSw == sw = [pages |-> [a \in 1..NumSyncActs |-> 0], seen |-> {},
                w |-> [t \in Workers |-> IdleWorker]]

QuietSw == InitSw

\* a click on the sync button: _run_bg starts a thread whatever is running;
\* the thread lists the activities and enters the loop
SwClick ==
    /\ cmd = "workers"
    /\ \E t \in Workers :
        /\ sw.w[t].pc = "idle"
        /\ sw' = [sw EXCEPT !.w[t] = [IdleWorker EXCEPT !.pc = "seen"]]
    /\ UNCHANGED <<cmd, notSwVars>>

\* if (not force) and _is_seen(na.strava_id): already += 1; continue
SwCheckSeen ==
    /\ cmd = "workers"
    /\ \E t \in Workers :
        /\ sw.w[t].pc = "seen"
        /\ sw.w[t].idx <= Len(SyncList)
        /\ sw' = IF IsSeen(sw.seen, SyncList[sw.w[t].idx])
                 THEN [sw EXCEPT !.w[t].idx = @ + 1]
                 ELSE [sw EXCEPT !.w[t].pc = "find"]
    /\ UNCHANGED <<cmd, notSwVars>>

\* the detail requests, then page_id = _find_page_id(...)
SwFind ==
    /\ cmd = "workers"
    /\ \E t \in Workers :
        /\ sw.w[t].pc = "find"
        /\ sw' = [sw EXCEPT
              !.w[t].pc = "write",
              !.w[t].found = sw.pages[SyncList[sw.w[t].idx]] > 0]
    /\ UNCHANGED <<cmd, notSwVars>>

\* pages.update on the page found, else pages.create; a request that fails
\* raises out of the job
SwWrite ==
    /\ cmd = "workers"
    /\ \E t \in Workers, ok \in BOOLEAN :
        /\ sw.w[t].pc = "write"
        /\ sw' = IF ~ok THEN [sw EXCEPT !.w[t] = IdleWorker]
                 ELSE [sw EXCEPT
                         !.pages[SyncList[sw.w[t].idx]] =
                             IF sw.w[t].found THEN @ ELSE @ + 1,
                         !.w[t].pc = "mark"]
    /\ UNCHANGED <<cmd, notSwVars>>

\* _mark_seen(na.strava_id), then the next activity
SwMark ==
    /\ cmd = "workers"
    /\ \E t \in Workers :
        /\ sw.w[t].pc = "mark"
        /\ sw' = [sw EXCEPT
              !.seen = MarkSeen(@, SyncList[sw.w[t].idx]),
              !.w[t] = [pc |-> "seen", idx |-> sw.w[t].idx + 1,
                        found |-> FALSE]]
    /\ UNCHANGED <<cmd, notSwVars>>

\* the loop is over: checkpoint, return, end of the thread
SwFinish ==
    /\ cmd = "workers"
    /\ \E t \in Workers :
        /\ sw.w[t].pc = "seen"
        /\ sw.w[t].idx > Len(SyncList)
        /\ sw' = [sw EXCEPT !.w[t] = IdleWorker]
    /\ UNCHANGED <<cmd, notSwVars>>

QuietFn == QuietTrimp /\ QuietWk /\ QuietDet /\ QuietNr /\ QuietGc /\ QuietSs /\ QuietPl /\ QuietNp /\ QuietSw

(***************************************************************************)
(* Specifications                                                          *)
(***************************************************************************)
\* the two sync commands, each on its own Notion database and cache
Init ==
    \/ cmd = "activities" /\ InitAct /\ QuietRt /\ InitUi /\ InitPlan
                          /\ QuietBoot /\ QuietFn
    \/ cmd = "routes" /\ QuietAct /\ InitRt /\ InitUi /\ InitPlan
                      /\ QuietBoot /\ QuietFn

Next ==
    \/ Tick
    \/ StravaUpload
    \/ CacheDelete
    \/ ActStart
    \/ ActSkip
    \/ ActProcess
    \/ ActFinish
    \/ RouteCreate
    \/ RouteEdit
    \/ RtStart
    \/ RtSkip
    \/ RtProcess
    \/ RtFinish

Spec == Init /\ [][Next]_vars

\* the incremental activity sync run again and again on the activities
\* database with every property. Each run is started by the user; a run
\* that is started lists and loops to its end, and the requests that can
\* fail do not fail for ever.
InitCheckpoint ==
    /\ cmd = "checkpoint"
    /\ QuietAct /\ QuietRt /\ InitUi /\ InitPlan /\ QuietBoot /\ QuietFn

NextCheckpoint ==
    \/ Tick
    \/ StravaUpload
    \/ ActStart
    \/ ActSkip
    \/ ActProcess
    \/ ActFinish

SpecCheckpoint ==
    /\ InitCheckpoint
    /\ [][NextCheckpoint]_vars
    /\ SF_vars(ActStart /\ actPc' = "loop")
    /\ WF_vars(ActSkip)
    /\ SF_vars(ActProcess /\ actPc' = "loop")
    /\ WF_vars(ActFinish)

\* the desktop UI and its worker threads
InitUI ==
    /\ cmd = "ui"
    /\ QuietAct /\ QuietRt /\ InitUi /\ InitPlan /\ QuietBoot /\ QuietFn

NextUI ==
    \/ UiSyncActivities
    \/ UiSyncGpx
    \/ UiJobEnd
    \/ UiAfterResult
    \/ UiAfterRestore

SpecUI == InitUI /\ [][NextUI]_vars

\* the plan push towards Google Calendar
InitPlanPush ==
    /\ cmd = "plan"
    /\ QuietAct /\ QuietRt /\ InitUi /\ InitPlan /\ QuietBoot /\ QuietFn

NextPlan ==
    \/ PlanCreate
    \/ PushSportEventCall
    \/ PlanStart
    \/ PlanIter
    \/ PlanReturn

SpecPlan == InitPlanPush /\ [][NextPlan]_vars

\* start-up of one of the two entry points under every environment
InitStartup ==
    /\ cmd = "boot"
    /\ QuietAct /\ QuietRt /\ InitUi /\ InitPlan /\ InitBoot /\ QuietFn

NextBoot ==
    \/ BootImport
    \/ BootStartSync
    \/ BootSyncStep

SpecBoot == InitStartup /\ [][NextBoot]_vars

\* _trimp_bannister under every argument of its domain
InitTrimpCall ==
    /\ cmd = "trimp"
    /\ QuietAct /\ QuietRt /\ InitUi /\ InitPlan /\ QuietBoot
    /\ InitTrimp /\ QuietWk /\ QuietDet /\ QuietNr /\ QuietGc /\ QuietSs /\ QuietPl /\ QuietNp /\ QuietSw

NextTrimp == TrimpCall

SpecTrimp == InitTrimpCall /\ [][NextTrimp]_vars

\* the plan-to-gcal command, with and without --dry-run
InitWeekPlan ==
    /\ cmd = "week"
    /\ QuietAct /\ QuietRt /\ InitUi /\ InitPlan /\ QuietBoot
    /\ QuietTrimp /\ InitWk /\ QuietDet /\ QuietNr /\ QuietGc /\ QuietSs /\ QuietPl /\ QuietNp /\ QuietSw

\* the summary line of plan_to_gcal (WkReturn) is not among the steps:
\* every push ends in the HttpError of the refused event id
NextWeek ==
    \/ WkCalendarDeleted
    \/ WkStart
    \/ WkShow
    \/ WkPush

SpecWeek == InitWeekPlan /\ [][NextWeek]_vars

\* the route sync alone, on the GPX database with every property, with the
\* history of failed writes
InitRouteHistory ==
    /\ cmd = "routeHistory"
    /\ QuietAct /\ QuietRt /\ InitUi /\ InitPlan /\ QuietBoot /\ QuietFn

NextRouteHistory ==
    \/ RouteCreate
    \/ RouteEdit
    \/ RtStart
    \/ RtSkip
    \/ RtProcess
    \/ RtFinish

SpecRouteHistory == InitRouteHistory /\ [][NextRouteHistory]_vars

\* _get_activity_detail on every sequence of answers
InitDetailCall ==
    /\ cmd = "detail"
    /\ QuietAct /\ QuietRt /\ InitUi /\ InitPlan /\ QuietBoot
    /\ QuietTrimp /\ QuietWk /\ InitDet /\ QuietNr /\ QuietGc /\ QuietSs /\ QuietPl /\ QuietNp /\ QuietSw

NextDetail == DetailCall

SpecDetail == InitDetailCall /\ [][NextDetail]_vars

\* _notion_request for every max_retries and every run of attempts
InitNotionRequest ==
    /\ cmd = "notionRequest"
    /\ QuietAct /\ QuietRt /\ InitUi /\ InitPlan /\ QuietBoot
    /\ QuietTrimp /\ QuietWk /\ QuietDet /\ InitNr /\ QuietGc /\ QuietSs /\ QuietPl /\ QuietNp /\ QuietSw

NextNotionRequest ==
    \/ NrEnter
    \/ NrAttempt

SpecNotionRequest == InitNotionRequest /\ [][NextNotionRequest]_vars

\* upsert_sport_event and push_sport_event called on a Google account
InitGcal ==
    /\ cmd = "gcal"
    /\ QuietAct /\ QuietRt /\ InitUi /\ InitPlan /\ QuietBoot
    /\ QuietTrimp /\ QuietWk /\ QuietDet /\ QuietNr /\ InitGc /\ QuietSs /\ QuietPl /\ QuietNp /\ QuietSw

NextGcal ==
    \/ UpsertSportEventCall
    \/ PushSportEventOnCalendar

SpecGcal == InitGcal /\ [][NextGcal]_vars

\* a StravaService built from every environment, then used over time
InitStravaService ==
    /\ cmd = "strava"
    /\ QuietAct /\ QuietRt /\ InitUi /\ InitPlan /\ QuietBoot
    /\ QuietTrimp /\ QuietWk /\ QuietDet /\ QuietNr /\ QuietGc /\ InitSs /\ QuietPl /\ QuietNp /\ QuietSw

NextStravaService ==
    \/ SsTick
    \/ SsConstruct
    \/ SsReq

SpecStravaService == InitStravaService /\ [][NextStravaService]_vars

\* ensure_place_for_coord called again and again on a Places database
InitPlaces ==
    /\ cmd = "places"
    /\ QuietAct /\ QuietRt /\ InitUi /\ InitPlan /\ QuietBoot
    /\ QuietTrimp /\ QuietWk /\ QuietDet /\ QuietNr /\ QuietGc /\ QuietSs /\ InitPl /\ QuietNp /\ QuietSw

NextPlaces == EnsurePlaceForCoord

SpecPlaces == InitPlaces /\ [][NextPlaces]_vars

\* update_plan called again and again on a Plans database
InitUpdatePlan ==
    /\ cmd = "updatePlan"
    /\ QuietAct /\ QuietRt /\ InitUi /\ InitPlan /\ QuietBoot
    /\ QuietTrimp /\ QuietWk /\ QuietDet /\ QuietNr /\ QuietGc /\ QuietSs /\ QuietPl /\ InitNp /\ QuietSw
    /\ \A g \in PlanPages \ {ExistingPage} : np.pages[g] = BlankPlanPage

NextUpdatePlan == UpdatePlan

SpecUpdatePlan == InitUpdatePlan /\ [][NextUpdatePlan]_vars

\* backfill_iso_week_for_plans run between edits of the plan dates
InitBackfill ==
    /\ cmd = "backfill"
    /\ QuietAct /\ QuietRt /\ InitUi /\ InitPlan /\ QuietBoot
    /\ QuietTrimp /\ QuietWk /\ QuietDet /\ QuietNr /\ QuietGc /\ QuietSs /\ QuietPl /\ InitNp /\ QuietSw

NextBackfill ==
    \/ BackfillIsoWeekForPlans
    \/ PlanDateEdited

SpecBackfill == InitBackfill /\ [][NextBackfill]_vars

\* worker threads of the UI, one per click, on the activities database with
\* every property
InitWorkers ==
    /\ cmd = "workers"
    /\ QuietAct /\ QuietRt /\ InitUi /\ InitPlan /\ QuietBoot
    /\ QuietTrimp /\ QuietWk /\ QuietDet /\ QuietNr /\ QuietGc /\ QuietSs /\ QuietPl /\ QuietNp /\ InitSw

NextWorkers ==
    \/ SwClick
    \/ SwCheckSeen
    \/ SwFind
    \/ SwWrite
    \/ SwMark
    \/ SwFinish

SpecWorkers == InitWorkers /\ [][NextWorkers]_vars

(***************************************************************************)
(* Properties                                                              *)
(***************************************************************************)
\* the pages of a database that were written for one Strava item
PagesOf(pages, src) == {i \in 1..Len(pages) : pages[i].src = src}

ActHasIdProp == "Strava ID" \in DOMAIN actSchema
RtHasIdProp == "Strava Route ID" \in DOMAIN rtSchema

\* C1, as stated: after any sequence of activity sync runs, forced or not,
\* with or without the cache deleted in between, the activities database
\* holds at most one page per Strava activity.
C1_OnePagePerActivity ==
    \A a \in Activities : Cardinality(PagesOf(actPages, a)) <= 1

\* C1, amended: when the activities database has a "Strava ID" property
\* (number, title or rich_text), it holds at most one page per Strava
\* activity after any sequence of runs, and exactly one for every activity
\* a run has recorded as synced.
C1_OnePagePerActivityWithIdProp ==
    ActHasIdProp =>
        /\ \A a \in Activities : Cardinality(PagesOf(actPages, a)) <= 1
        /\ \A a \in seenActs : Cardinality(PagesOf(actPages, a)) = 1

\* C1 witness: a run found the page of an activity and updated it in place
C1_UpdatedInPlace ==
    /\ ActHasIdProp
    /\ actLast.outcome = "updated"
    /\ Cardinality(PagesOf(actPages, actLast.sid)) = 1

\* C2, as stated: after any sequence of route sync runs, forced or not,
\* failed writes included, the GPX database holds at most one page per
\* Strava route.
C2_OnePagePerRoute ==
    \A r \in Routes : Cardinality(PagesOf(rtPages, r)) <= 1

\* C2, amended: when the GPX database has a "Strava Route ID" property, it
\* holds at most one page per Strava route after any sequence of runs, and
\* exactly one for every route that has a marker in seen_routes.
C2_OnePagePerRouteWithIdProp ==
    RtHasIdProp =>
        /\ \A r \in Routes : Cardinality(PagesOf(rtPages, r)) <= 1
        /\ \A r \in Routes :
              seenRoutes[r].seen => Cardinality(PagesOf(rtPages, r)) = 1

\* C2 witness: after a failed write in the same run, a forced run updated
\* the existing page of a route in place
C2_RouteUpdatedInPlace ==
    /\ RtHasIdProp
    /\ rtForce
    /\ rtFailed >= 1
    /\ rtLast.outcome = "updated"
    /\ Cardinality(PagesOf(rtPages, rtLast.rid)) = 1

\* C3: a non-forced run that starts right after a completed non-forced run
\* with the same arguments, with no upload to Strava and no cache deletion
\* since that run listed the activities, creates or updates no page and
\* sends no Notion write at all.
C3_SecondRunWritesNothing ==
    actFollows => created_or_updated = 0 /\ ~actTouched

\* C3 witness: such a second run reached its end after taking the skip
\* path
C3_SecondRunSkipped ==
    /\ actFollows
    /\ actPc = "loop"
    /\ actIdx > Len(actList)
    /\ already >= 1

\* the route is what it was at its last successful sync
RouteUnchanged(rt) ==
    /\ rtSynced[rt.id].seen
    /\ rtSynced[rt.id].updated_at = rt.updated_at
    /\ rtSynced[rt.id].checksum = ChecksumRoute(rt)

\* a step of the for loop of sync_strava_routes_to_notion
RtLoopStep ==
    /\ rtPc = "loop"
    /\ rtIdx <= Len(rtList)
    /\ (rtIdx' # rtIdx \/ rtPc' # rtPc)

\* C4: the loop step on a route whose updated_at and checksum are those of
\* its last successful sync, with force=False, counts the route as skipped
\* and downloads no GPX, builds no payload and writes no page; with
\* force=True the route is processed.
C4_UnchangedRouteSkippedUnlessForced ==
    [][(RtLoopStep /\ RouteUnchanged(rtList[rtIdx])) =>
          IF rtForce
          THEN /\ rtLast'.rid = rtList[rtIdx].id
               /\ rtLast'.outcome # "skipped"
               /\ rtLast'.gpx
               /\ rtSkipped' = rtSkipped
          ELSE /\ rtLast'.rid = rtList[rtIdx].id
               /\ rtLast'.outcome = "skipped"
               /\ ~rtLast'.gpx
               /\ rtLast'.payload = {}
               /\ rtSkipped' = rtSkipped + 1
               /\ rtCreated' = rtCreated
               /\ rtPages' = rtPages]_vars

\* C4 witness: a non-forced run skipped a route that has a marker
C4_RouteSkipped ==
    /\ rtPc = "loop"
    /\ ~rtForce
    /\ rtLast.outcome = "skipped"
    /\ rtSkipped >= 1
    /\ rtSynced[rtLast.rid].seen

\* C5: a loop step of the route sync in which the GPX, geocoding or zone
\* work raised, or in which the Notion create/update raised, leaves the run
\* in its loop, positioned on the next route; and the run returns only
\* after the last listed route.
C5_RouteFailuresIsolated ==
    [][/\ (/\ RtLoopStep
           /\ rtLast'.outcome # "queryRaised"
           /\ \/ rtLast'.gpxFailed
              \/ rtLast'.outcome \in {"writeFailed", "writeRaised"})
          => (rtPc' = "loop" /\ rtIdx' = rtIdx + 1 /\ rtList' = rtList)
       /\ (rtPc = "loop" /\ rtResult' = "returned")
          => rtIdx > Len(rtList)]_vars

\* C5 witness: after a failed write, the run went on and wrote the page of
\* the next route
C5_NextRouteProcessedAfterFailure ==
    /\ rtPc = "loop"
    /\ rtFailed >= 1
    /\ rtIdx = 3
    /\ rtLast.outcome \in {"created", "updated"}
    /\ rtCreated = 1

\* C6, as stated: a Notion create/update that raises for one activity does
\* not abort the activity sync.
C6_WriteFailureDoesNotAbort ==
    actLast.outcome = "writeRaised" => actResult # "raised"

\* C7: every key of a payload sent by either sync is a property of the
\* schema of its database, read at the start of the run.
C7_PayloadKeysInSchema ==
    /\ actLast.payload \subseteq DOMAIN actSchema
    /\ rtLast.payload \subseteq DOMAIN rtSchema

\* C7 witness: places were resolved for a database that has the "Depart"
\* relation but no "Arrivee": the payload carries the one, not the other
C7_PayloadShrunk ==
    /\ actLast.outcome = "created"
    /\ "Depart" \in actLast.payload
    /\ "Arrivee" \notin DOMAIN actSchema
    /\ "Arrivee" \notin actLast.payload

\* C8, as stated: at most one sync job started from the UI runs at a time.
C8_AtMostOneSyncJob == Cardinality(RunningJobs) <= 1

\* C9, as stated: once push_plans_window has run, every plan page it
\* fetched has exactly one calendar event carrying its page id.
C9_OneKeyedEventPerPlanPage ==
    (planRuns >= 1 /\ planPc = "idle") =>
        \A i \in 1..Len(planSessions) :
            Cardinality(EventsWithKey(gcalEvents, planSessions[i])) = 1

\* the variables the two syncs cannot do without
SyncEnv == REQUIRED_ENV \cup {"NOTION_DB_GPX", "NOTION_DB_PLACES"}

\* C10: when a variable required by the syncs is absent, start-up never
\* gets past the imports: no sync starts, no request is sent and no cache
\* is written.
C10_MissingEnvFatalBeforeEffects ==
    ~(SyncEnv \subseteq bootEnv) =>
        /\ bootPc \in {"import", "failed"}
        /\ bootCmd = "none"
        /\ bootRemote = 0
        /\ bootCacheWrites = 0

\* C10 witness: config.py is satisfied, NOTION_DB_GPX alone is absent, and
\* the import of routes_to_notion failed
C10_FailedAtRoutesImport ==
    /\ bootPc = "failed"
    /\ bootEnv = EnvNames \ {"NOTION_DB_GPX"}
    /\ Imports(bootEntry)[bootStep] = "routes_to_notion"

\* a step of a non-forced activity run that started on a cache without
\* checkpoint, as a deleted state.sqlite leaves it
RebuildStep ==
    /\ actPc = "loop"
    /\ ~Force(actArgs)
    /\ lastSyncEpoch = NoMeta

\* C11, as stated: in a non-forced run over a deleted cache, the iteration
\* on an activity that has a page leaves the activities database as it was
\* (no page added), and when the run returns every activity it listed has
\* its seen marker again and the checkpoint is set.
C11_CacheRebuiltSameRecords ==
    [][RebuildStep =>
          /\ (/\ actIdx' = actIdx + 1
              /\ PagesOf(actPages, actList[actIdx]) # {})
                 => actPages' = actPages
          /\ actResult' = "returned" =>
                 /\ \A i \in 1..Len(actList) : IsSeen(seenActs', actList[i])
                 /\ lastSyncEpoch' # NoMeta]_vars

\* C11, amended: the same, for an activities database that has a
\* "Strava ID" property.
C11_CacheRebuiltSameRecordsWithIdProp ==
    [][(ActHasIdProp /\ RebuildStep) =>
          /\ (/\ actIdx' = actIdx + 1
              /\ PagesOf(actPages, actList[actIdx]) # {})
                 => actPages' = actPages
          /\ actResult' = "returned" =>
                 /\ \A i \in 1..Len(actList) : IsSeen(seenActs', actList[i])
                 /\ lastSyncEpoch' # NoMeta]_vars

\* C11 witness: a non-forced run over an emptied cache is about to return:
\* it skipped nothing, updated the page of each activity it listed, and the
\* database still holds one page per activity
C11_RebuiltOverExistingPages ==
    /\ ActHasIdProp
    /\ RebuildStep
    /\ actIdx > Len(actList)
    /\ Len(actList) = NumActs
    /\ already = 0
    /\ actLast.outcome = "updated"
    /\ seenActs = Activities
    /\ \A a \in Activities : Cardinality(PagesOf(actPages, a)) = 1

\* C12: whenever hr_max <= hr_rest or one of duration, hr_avg, hr_max is
\* missing, the call of _trimp_bannister returns None; it does not raise.
C12_TrimpNoneOnBadInput ==
    (/\ trimpOut # TrimpPending
     /\ \/ trimpIn.duration_s = NoValue
        \/ trimpIn.hr_avg = NoValue
        \/ trimpIn.hr_max = NoValue
        \/ trimpIn.hr_max <= trimpIn.hr_rest)
        => trimpOut.kind = "none"

\* C12 witness: every input is present, hr_max equals hr_rest and sex is
\* None: the call returned None without dividing and without reading sex
C12_NoneOnEqualRates ==
    /\ trimpOut.kind = "none"
    /\ trimpIn.duration_s = 2700
    /\ trimpIn.hr_avg = 150
    /\ trimpIn.hr_max = 185
    /\ trimpIn.hr_rest = 185
    /\ trimpIn.sex = NoSex

\* the closed form (d/60) * r * a * e^(b*r), r = (hr_avg - 60)/(185 - 60),
\* rounded to one decimal, in tenths, evaluated in double precision for
\* hr_max = 185 and hr_rest = 60
ClosedFormTenths(duration_s, hr_avg, female) ==
    IF duration_s = 0 THEN 0
    ELSE IF hr_avg = 0
    THEN (IF female THEN (IF duration_s = 1800 THEN -56 ELSE -83)
          ELSE (IF duration_s = 1800 THEN -37 ELSE -55))
    ELSE IF female
    THEN (IF duration_s = 1800 THEN (IF hr_avg = 120 THEN 276 ELSE 618)
          ELSE (IF hr_avg = 120 THEN 414 ELSE 927))
    ELSE (IF duration_s = 1800 THEN (IF hr_avg = 120 THEN 232 ELSE 551)
          ELSE (IF hr_avg = 120 THEN 347 ELSE 826))

\* C13, as stated: for present inputs with hr_max > hr_rest the call
\* returns the closed form rounded to one decimal, with the female pair
\* (0.86, 1.67) when sex starts with F or f and the male pair otherwise.
C13_TrimpClosedForm ==
    (/\ trimpOut # TrimpPending
     /\ trimpIn.duration_s # NoValue
     /\ trimpIn.hr_avg # NoValue
     /\ trimpIn.hr_max # NoValue
     /\ trimpIn.hr_max > trimpIn.hr_rest
     /\ trimpIn.sex # NoSex)
        => /\ trimpOut.kind = "value"
           /\ trimpOut.tenths =
                  ClosedFormTenths(trimpIn.duration_s, trimpIn.hr_avg,
                                   trimpIn.sex \in {<<"F">>, <<"f">>,
                                                    <<"F", "e", "m">>})

\* C13, amended: the same for inputs that are present and not zero; a
\* duration or a heart rate of zero is treated as missing.
C13_TrimpClosedFormNonZero ==
    (/\ trimpOut # TrimpPending
     /\ trimpIn.duration_s \notin {NoValue, 0}
     /\ trimpIn.hr_avg \notin {NoValue, 0}
     /\ trimpIn.hr_max \notin {NoValue, 0}
     /\ trimpIn.hr_max > trimpIn.hr_rest
     /\ trimpIn.sex # NoSex)
        => /\ trimpOut.kind = "value"
           /\ trimpOut.tenths =
                  ClosedFormTenths(trimpIn.duration_s, trimpIn.hr_avg,
                                   trimpIn.sex \in {<<"F">>, <<"f">>,
                                                    <<"F", "e", "m">>})

\* C13 witness: d=2700, hr_avg=150, hr_max=185, hr_rest=60, sex="M" gave
\* 82.6
C13_TrimpExample ==
    /\ trimpIn = [duration_s |-> 2700, hr_avg |-> 150, hr_max |-> 185,
                  hr_rest |-> 60, sex |-> <<"M">>]
    /\ trimpOut = [kind |-> "value", tenths |-> 826]

\* C14, as stated: a plan-to-gcal command run with --dry-run sends no write
\* to Google Calendar: no calendar is created or subscribed, no event is
\* inserted or updated.
C14_DryRunWritesNothing ==
    (wkPc # "idle" /\ wkDryRun) => wkWrites = {}

\* C15: in both sync paths, a step that adds or changes a seen marker is
\* the iteration whose Notion create/update for that very item returned: a
\* failed write leaves the markers as they were; and every marker of the
\* cache belongs to an item that has a page in the destination.
C15_MarkersOnlyAfterSuccess ==
    [][/\ \A a \in Activities :
             (IsSeen(seenActs', a) /\ ~IsSeen(seenActs, a)) =>
                 /\ actLast'.outcome \in {"created", "updated"}
                 /\ actLast'.sid = a
       /\ \A r \in Routes :
             seenRoutes'[r] # seenRoutes[r] =>
                 /\ rtLast'.outcome \in {"created", "updated"}
                 /\ rtLast'.rid = r
       /\ \A a \in seenActs' : PagesOf(actPages', a) # {}
       /\ \A r \in Routes :
             seenRoutes'[r].seen => PagesOf(rtPages', r) # {}]_vars

\* C15 witness: the write of a route failed and left it without marker,
\* after the route before it was written and marked in the same run
C15_NoMarkerAfterFailedWrite ==
    /\ rtPc = "loop"
    /\ rtLast.outcome = "writeFailed"
    /\ ~seenRoutes[rtLast.rid].seen
    /\ \E r \in Routes :
          /\ r # rtLast.rid
          /\ seenRoutes[r].seen
          /\ PagesOf(rtPages, r) # {}

\* what the loop of sync_strava_routes_to_notion does to a route it does not
\* skip: GPX and geography, then the query and the write are attempted
RouteProcessed(rt) ==
    /\ rtLast'.rid = rt.id
    /\ rtLast'.gpx
    /\ rtLast'.outcome \in {"created", "updated", "writeFailed",
                            "queryRaised", "writeRaised"}
    /\ rtLast'.outcome \in {"created", "updated"} =>
           /\ rtSkipped' = rtSkipped
           /\ rtCreated' = rtCreated + 1
           /\ FindPageIdByRouteId(rtPages', Get(rtSchema, "Strava Route ID"),
                                  rt.id) # 0
              \/ "Strava Route ID" \notin DOMAIN rtSchema
              \/ Get(rtSchema, "Strava Route ID") \notin
                     {"number", "rich_text", "title"}

\* C16: in a non-forced run, the loop step on a route that has no marker, or
\* whose updated_at or described fields differ from those of its last
\* successful sync, processes the route instead of skipping it; and so does
\* the loop step on a route whose previous write failed.
C16_ChangedOrFailedRouteProcessed ==
    [][(/\ RtLoopStep
        /\ ~rtForce
        /\ \/ ~RouteUnchanged(rtList[rtIdx])
           \/ rtList[rtIdx].id = rtWriteFailed)
       => RouteProcessed(rtList[rtIdx])]_vars

\* C16 as amended: in a non-forced run, the loop step on a route that has no
\* marker, or whose updated_at or described fields differ from those of its
\* last successful sync, processes the route instead of skipping it; a write
\* that fails in a non-forced run leaves the marker as it was, so that the
\* route still counts as changed for the next run.
C16_ChangedRouteProcessed ==
    [][/\ (RtLoopStep /\ ~rtForce /\ ~RouteUnchanged(rtList[rtIdx]))
          => RouteProcessed(rtList[rtIdx])
       /\ (RtLoopStep /\ ~rtForce /\ rtLast'.outcome = "writeFailed")
          => /\ seenRoutes' = seenRoutes
             /\ rtSynced' = rtSynced
             /\ ~RouteUnchanged(rtList[rtIdx])
             /\ ShouldProcess(rtList[rtIdx], seenRoutes')]_vars

\* C16 witness: a non-forced run wrote again a route that had been edited
\* since its last successful sync
C16_EditedRouteWrittenAgain ==
    /\ rtPc = "loop"
    /\ ~rtForce
    /\ rtLast.outcome = "updated"
    /\ stravaRoutes[rtLast.rid].name >= 1
    /\ rtSynced[rtLast.rid].checksum = ChecksumRoute(rtList[rtIdx - 1])

\* C17: _get_activity_detail sends at most two requests; an answer of 429 or
\* 5xx to the first is followed by a second request; after the attempts are
\* used up, or on 403/404, the result is the empty detail; the call never
\* raises.
C17_DetailRetriedNeverRaises ==
    detOut # DetailPending =>
        /\ detOut.attempts \in 1..2
        /\ (detResps[1] = 429 \/ detResps[1] >= 500) => detOut.attempts = 2
        /\ detResps[detOut.attempts] \in {403, 404} => detOut.kind = "empty"
        /\ (detOut.attempts = 2 /\ detResps[2] >= 400) => detOut.kind = "empty"
        /\ detOut.kind # "raise"

\* C17 as amended: _get_activity_detail sends at most two requests, the
\* second only after a 429 to the first; 403, 404 and a second 429 give the
\* empty detail; any other status of 400 or more, 5xx included, raises at
\* once without a retry; a status below 400 gives the body.
C17_DetailRetriedOn429Only ==
    detOut # DetailPending =>
        /\ detOut.attempts \in 1..DETAIL_ATTEMPTS
        /\ detOut.attempts = 2 <=> detResps[1] = 429
        /\ LET last == detResps[detOut.attempts]
           IN /\ detOut.kind = "empty" <=> last \in {403, 404, 429}
              /\ detOut.kind = "raise" <=> (last >= 400
                                            /\ last \notin {403, 404, 429})
              /\ detOut.kind = "json" <=> last < 400

\* C17 witness: two answers of 429 ended in the empty detail
C17_EmptyAfterTwo429 ==
    /\ detResps[1] = 429
    /\ detResps[2] = 429
    /\ detOut = [kind |-> "empty", attempts |-> 2]

\* C18: a call of _notion_request sends at most max_retries requests; it
\* returns at the first request that succeeds; after a read timeout, a
\* connect error, a 429 (once Retry-After has been slept) or a 5xx it sleeps
\* the backoff and tries again, the backoff starting at 1 s, growing by 1.8
\* and never above 12 s; the error of the last allowed attempt is raised;
\* the call never ends with neither a response nor an error.
C18_BoundedRetryLoop ==
    [][/\ nrPc' # "none"
       /\ nrSent' # nrSent =>
          /\ nrSent' = nrSent + 1
          /\ nrSent' = nrAttempt
          /\ nrSent' <= nrMax
          /\ nrPc' = "response" <=> nrLast'.out = "ok"
          /\ (/\ nrLast'.out \in {"ReadTimeout", "ConnectError", "429", "500"}
              /\ nrSent' < nrMax)
             => /\ nrPc' = "loop"
                /\ nrAttempt' = nrAttempt + 1
                /\ nrSlept' = Append(nrSlept, nrBackoff)
                /\ nrLast'.out = "429" => nrLast'.waited
          /\ \A i \in 1..Len(nrSlept') :
                /\ nrSlept'[i] <= 12 * BackoffUnit
                /\ i = 1 => nrSlept'[i] = 1 * BackoffUnit
                /\ i > 1 => \/ nrSlept'[i] = (nrSlept'[i - 1] * 18) \div 10
                            \/ /\ nrSlept'[i] = 12 * BackoffUnit
                               /\ (nrSlept'[i - 1] * 18) \div 10
                                      >= 12 * BackoffUnit
          /\ (nrSent' = nrMax /\ nrLast'.out # "ok") => nrPc' = "raised"
          /\ (nrPc' = "raised" /\ Caught(nrLast'.out)) => nrSent' = nrMax]_vars

\* C18 witness: every allowed attempt failed, the sixth sleep was the one of
\* 12 s, and the last error was raised
C18_RaisedAfterCappedBackoff ==
    /\ nrPc = "raised"
    /\ nrSent = nrMax
    /\ Caught(nrLast.out)
    /\ Len(nrSlept) >= 6
    /\ nrSlept[5] = 104976
    /\ nrSlept[6] = BACKOFF_CAP

\* C19: after any sequence of calls of upsert_sport_event and
\* push_sport_event, whatever their start times, a calendar holds at most
\* one event whose private notion_page_id is a given external_key: the
\* first call with the key inserts, the later ones update.
C19_OneEventPerExternalKey ==
    \A key \in ExternalKeys :
        Cardinality({i \in 1..Len(gcEvents) :
                        gcEvents[i].cal = SportId /\ gcEvents[i].key = key})
            <= 1

\* C20: push_sport_event called without calendar_hint while neither
\* SPORT_CALENDAR_ID nor WORK_CALENDAR_ID is set creates the event in the
\* calendar "primary".
C20_FallbackToPrimaryCreates ==
    (/\ gcLast.fn = "push"
     /\ gcLast.hint = NoHint
     /\ gcEnv.sport = NoHint
     /\ gcEnv.work = NoHint)
    => /\ gcLast.result = "inserted"
       /\ gcLast.cal = "primary"
       /\ \E i \in 1..Len(gcEvents) : gcEvents[i].cal = "primary"

\* C21: an iteration of the push loop of plan_to_gcal leaves in the calendar
\* one event for each stable id of its session (inserted by the first push,
\* updated in place by a later one) and goes on to the next session, so that
\* pushing a week twice leaves the same events.
C21_WeekPushIdempotent ==
    [][(/\ wkPc = "push"
        /\ wkIdx <= Len(WeekSports)
        /\ (wkIdx' # wkIdx \/ wkPc' # wkPc))
       => /\ wkPc' = "push"
          /\ wkIdx' = wkIdx + 1
          /\ StableEventId("morning", wkWeek, wkIdx) \in wkEvents'
          /\ WeekSports[wkIdx] # "repos" =>
                 StableEventId("session", wkWeek, wkIdx) \in wkEvents'
          /\ (StableEventId("morning", wkWeek, wkIdx) \in wkEvents
              /\ StableEventId("session", wkWeek, wkIdx) \in wkEvents)
             => wkEvents' = wkEvents]_vars

\* C22: a request of StravaService is sent only with a token whose known
\* expiry is at least 60 s away, the token having been refreshed first when
\* it was absent or closer to its expiry; and a call that finds no usable
\* token while the client id / secret / refresh token trio is incomplete
\* raises RuntimeError and sends nothing.
C22_NoRequestWithExpiringToken ==
    /\ ss.last.sent =>
          /\ ss.token
          /\ ss.last.expires_at >= ss.last.at + EXPIRY_MARGIN
    /\ (ss.last.fn # "none" /\ ~ss.trio /\ ss.last.result # "None") =>
          /\ ss.last.result = "RuntimeError"
          /\ ~ss.last.sent
    /\ ss.last.result # "None" => ~ss.last.sent

\* C22 witness: a request went out after _auth_headers had refreshed a token
\* that was less than 60 s from its expiry
C22_RefreshedBeforeRequest ==
    /\ ss.last.fn = "req"
    /\ ss.last.sent
    /\ ss.last.refreshed
    /\ ss.last.at > 0

\* C23: after any sequence of ensure_place_for_coord calls the Places
\* database holds at most one page per commune name: a call that finds a
\* page with the commune title updates it (or raises), and a page is created
\* only by a call that found none.
C23_OnePagePerCommune ==
    /\ \A t \in PlaceTitles : pl.pages[t] <= 1
    /\ pl.last.result = "created" =>
          /\ ~pl.last.found
          /\ pl.pages[pl.last.title] = 1
    /\ pl.last.result = "updated" => pl.last.found

\* C23 witness: a second call for a commune already in the database has
\* updated its page, next to the page of another commune.
C23_ExistingPlaceUpdated ==
    /\ pl.last.result = "updated"
    /\ pl.pages[pl.last.title] = 1
    /\ \E t \in PlaceTitles : t # pl.last.title /\ pl.pages[t] = 1

\* C24: a write to the Places database carries only properties the
\* database schema has; a property missing from the schema is omitted from
\* the payload.
C24_PlacePayloadWithinSchema ==
    DOMAIN pl.last.props \subseteq DOMAIN pl.schema

\* C25: update_plan changes only what the caller asked for: the update it
\* sends holds only properties of the fields passed (with month and ISO
\* week when date is passed), and it makes no other write: no change of the
\* database schema.
C25_UpdatePlanWritesOnlyRequested ==
    np.last.fn = "update_plan" =>
        /\ np.last.payload \subseteq RequestedKinds(np.last.fields)
        /\ np.last.schemaWrites = {}

\* C26: backfill_iso_week_for_plans with dry_run=True writes nothing to
\* Notion, neither a page nor the database schema, and reports updated = 0.
C26_DryRunBackfillWritesNothing ==
    (np.last.fn = "backfill" /\ np.last.dry_run) =>
        /\ np.last.pageWrites = {}
        /\ np.last.schemaWrites = {}
        /\ np.last.updated = 0

C28_NoActivityMissed ==
    \A a \in Activities :
        (stravaActs[a] # Absent) ~> (PagesOf(actPages, a) # {})

\* C29: when two sync executions interleave (two worker threads started by
\* two clicks on the sync button), the Notion database still holds at most
\* one page per Strava ID.
C29_OnePagePerStravaIdWithWorkers ==
    \A a \in DOMAIN sw.pages : sw.pages[a] <= 1

====
